---- MODULE Spec2Model ----
(***************************************************************************)
(* Model of the line-oriented syntax highlighting engine of                *)
(* src/utils/syntax_highlighter.py (class SyntaxHighlighter and its        *)
(* language subclasses) as driven by QSyntaxHighlighter and by             *)
(* MainWindow.apply_syntax_highlighting of src/main.py.                    *)
(*                                                                         *)
(* A line of text is a sequence of one-character strings.  Offsets are     *)
(* 0-based as in the source: offset i of a line is text[i + 1].            *)
(***************************************************************************)
EXTENDS Integers, Sequences, FiniteSets

(***************************************************************************)
(* State constants for multi-line constructs.                              *)
(***************************************************************************)
STATE_DEFAULT == 0
STATE_MULTILINE_COMMENT == 1
STATE_TRIPLE_QUOTE_STRING == 2
STATE_DOCSTRING == 3
STATE_TEMPLATE_LITERAL == 4
STATE_EMBEDDED_JS_IN_HTML == 10
STATE_EMBEDDED_CSS_IN_HTML == 11
STATE_XML_CDATA == 12

\* QTextBlock.userState() of a block that no highlighter has given a state.
NoState == -1

(***************************************************************************)
(* Regular expressions (Python's re).  A pattern is a tree of records; the *)
(* matcher is a backtracking matcher with Python's priorities: greedy      *)
(* repetition tries one more iteration first, alternation tries its        *)
(* branches left to right, and the first complete match wins.              *)
(***************************************************************************)
Lower == {"a", "b", "c", "d", "e", "f", "g", "h", "i", "j", "k", "l", "m",
          "n", "o", "p", "q", "r", "s", "t", "u", "v", "w", "x", "y", "z"}
Upper == {"A", "B", "C", "D", "E", "F", "G", "H", "I", "J", "K", "L", "M",
          "N", "O", "P", "Q", "R", "S", "T", "U", "V", "W", "X", "Y", "Z"}
Digit == {"0", "1", "2", "3", "4", "5", "6", "7", "8", "9"}
Alpha == Lower \cup Upper
\* \w and \s
Word == Alpha \cup Digit \cup {"_"}
Space == {" ", "\t"}

\* The number of capture groups the matcher keeps track of.
MaxGroup == 4
NoGroups == [n \in 1..MaxGroup |-> <<-1, -1>>]

Chr(c) == [t |-> "chr", c |-> c]
Lit(c) == [t |-> "chr", c |-> {c}]
Not(c) == [t |-> "not", c |-> c]
Dot == [t |-> "not", c |-> {}]
Cat(r) == [t |-> "cat", r |-> r]
Alt(r) == [t |-> "alt", r |-> r]
Rep(r, lo, hi) == [t |-> "rep", r |-> r, lo |-> lo, hi |-> hi, greedy |-> TRUE]
Lazy(r, lo, hi) == [t |-> "rep", r |-> r, lo |-> lo, hi |-> hi, greedy |-> FALSE]
\* hi = -1: no upper limit
Star(r) == Rep(r, 0, -1)
Plus(r) == Rep(r, 1, -1)
Opt(r) == Rep(r, 0, 1)
Grp(n, r) == [t |-> "grp", n |-> n, r |-> r]
Bol == [t |-> "bol"]
Eol == [t |-> "eol"]
WordB == [t |-> "wb", pos |-> TRUE]
NotWordB == [t |-> "wb", pos |-> FALSE]
Ahead(r) == [t |-> "la", r |-> r, pos |-> TRUE]
NotAhead(r) == [t |-> "la", r |-> r, pos |-> FALSE]
Behind(r) == [t |-> "lb", r |-> r, pos |-> TRUE]
NotBehind(r) == [t |-> "lb", r |-> r, pos |-> FALSE]
Ref(n) == [t |-> "ref", n |-> n]
\* a literal string, given as its sequence of characters
Str(s) == [t |-> "cat", r |-> [k \in 1..Len(s) |-> Lit(s[k])]]

Fail == <<>>

IsWordAt(text, i) == i >= 0 /\ i < Len(text) /\ text[i + 1] \in Word

RECURSIVE MF(_, _, _, _)
RECURSIVE MFAlt(_, _, _, _, _, _)
RECURSIVE MFBehind(_, _, _, _, _)

\* The first way (in Python's backtracking order) to match the patterns of
\* `stack` one after the other from offset i; <<end, groups>> or Fail.
MF(stack, text, i, g) ==
  IF stack = <<>> THEN <<i, g>>
  ELSE
    LET re == Head(stack)
        rest == Tail(stack)
    IN CASE re.t = "chr" ->
              IF i < Len(text) /\ text[i + 1] \in re.c
              THEN MF(rest, text, i + 1, g) ELSE Fail
         [] re.t = "not" ->
              IF i < Len(text) /\ text[i + 1] \notin re.c
              THEN MF(rest, text, i + 1, g) ELSE Fail
         [] re.t = "cat" -> MF(re.r \o rest, text, i, g)
         [] re.t = "alt" -> MFAlt(re.r, 1, rest, text, i, g)
         [] re.t = "rep" ->
              MF(<<[t |-> "loop", re |-> re, n |-> 0, from |-> -1]>> \o rest,
                 text, i, g)
         [] re.t = "loop" ->
              LET more == IF (re.re.hi = -1 \/ re.n < re.re.hi) /\ i # re.from
                          THEN MF(<<re.re.r, [re EXCEPT !.n = re.n + 1,
                                                        !.from = i]>> \o rest,
                                  text, i, g)
                          ELSE Fail
                  stop == IF re.n >= re.re.lo THEN MF(rest, text, i, g)
                          ELSE Fail
              IN IF re.re.greedy
                 THEN (IF more # Fail THEN more ELSE stop)
                 ELSE (IF stop # Fail THEN stop ELSE more)
         [] re.t = "grp" ->
              MF(<<re.r, [t |-> "end", n |-> re.n, s |-> i]>> \o rest,
                 text, i, g)
         [] re.t = "end" ->
              MF(rest, text, i, [g EXCEPT ![re.n] = <<re.s, i>>])
         [] re.t = "bol" -> IF i = 0 THEN MF(rest, text, i, g) ELSE Fail
         [] re.t = "eol" ->
              IF i = Len(text) THEN MF(rest, text, i, g) ELSE Fail
         [] re.t = "wb" ->
              IF (IsWordAt(text, i - 1) # IsWordAt(text, i)) = re.pos
              THEN MF(rest, text, i, g) ELSE Fail
         [] re.t = "la" ->
              IF (MF(<<re.r>>, text, i, g) # Fail) = re.pos
              THEN MF(rest, text, i, g) ELSE Fail
         [] re.t = "lb" ->
              IF MFBehind(re.r, text, i, i, g) = re.pos
              THEN MF(rest, text, i, g) ELSE Fail
         [] re.t = "at" -> IF i = re.i THEN MF(rest, text, i, g) ELSE Fail
         [] re.t = "ref" ->
              LET s == g[re.n][1]
                  n == g[re.n][2] - g[re.n][1]
              IN IF s >= 0 /\ i + n <= Len(text)
                    /\ \A k \in 1..n : text[i + k] = text[s + k]
                 THEN MF(rest, text, i + n, g) ELSE Fail

MFAlt(alts, k, rest, text, i, g) ==
  IF k > Len(alts) THEN Fail
  ELSE LET r == MF(<<alts[k]>> \o rest, text, i, g)
       IN IF r # Fail THEN r ELSE MFAlt(alts, k + 1, rest, text, i, g)

\* Does `re` match some text[j..i) that ends at offset i?
MFBehind(re, text, j, i, g) ==
  IF j < 0 THEN FALSE
  ELSE LET r == MF(<<re, [t |-> "at", i |-> i]>>, text, j, g)
       IN IF r # Fail THEN TRUE ELSE MFBehind(re, text, j - 1, i, g)

(***************************************************************************)
(* re.Pattern.match(text, pos), .search(text, pos) and .finditer(text,     *)
(* pos).  A match is [s |-> start, e |-> end, g |-> group spans]; None is  *)
(* NoMatch.  `^` is the real beginning of the text, whatever pos is.       *)
(***************************************************************************)
NoMatch == [s |-> -1, e |-> -1, g |-> NoGroups, re |-> Cat(<<>>)]
IsMatch(m) == m.s # -1

\* The match object for the result r of MF from offset pos
MatchOf(re, pos, r) ==
  IF r = Fail THEN NoMatch
  ELSE [s |-> pos, e |-> r[1], g |-> r[2], re |-> re]

ReMatch(re, text, pos) == MatchOf(re, pos, MF(<<re>>, text, pos, NoGroups))

RECURSIVE ReSearch(_, _, _)
\* m is the match at pos
SearchFrom(re, text, pos, m) ==
  IF IsMatch(m) THEN m ELSE ReSearch(re, text, pos + 1)

ReSearch(re, text, pos) ==
  IF pos > Len(text) THEN NoMatch
  ELSE SearchFrom(re, text, pos, ReMatch(re, text, pos))

RECURSIVE FindIter(_, _, _)
\* m is the first match at or after pos
IterFrom(re, text, m) ==
  IF ~IsMatch(m) THEN <<>>
  ELSE <<m>> \o FindIter(re, text, IF m.e > m.s THEN m.e ELSE m.s + 1)

FindIter(re, text, pos) == IterFrom(re, text, ReSearch(re, text, pos))

\* re.Pattern.groups: the number of capture groups of a pattern
RECURSIVE Groups(_)
RECURSIVE GroupsOfAll(_, _)
Groups(re) ==
  CASE re.t = "grp" -> 1 + Groups(re.r)
    [] re.t \in {"cat", "alt"} -> GroupsOfAll(re.r, 1)
    [] re.t \in {"rep", "la", "lb"} -> Groups(re.r)
    [] OTHER -> 0
GroupsOfAll(rs, k) ==
  IF k > Len(rs) THEN 0 ELSE Groups(rs[k]) + GroupsOfAll(rs, k + 1)

\* match.start(group), match.end(group) as <<start, end>>; IndexError when
\* the pattern has no such group
IndexError == <<-2, -2>>
GroupSpan(m, group) ==
  IF group = 0 THEN <<m.s, m.e>>
  ELSE IF group > Groups(m.re) THEN IndexError
  ELSE m.g[group]

\* text[start:]: the slice without its end bound
SliceToEnd(text, start, length) == SubSeq(text, start + 1, Len(text))

\* text[start : start + length]
Slice(text, start, length) ==
  SubSeq(text, start + 1, IF start + length > Len(text) THEN Len(text)
                          ELSE start + length)

Min(a, b) == IF a < b THEN a ELSE b
Max(a, b) == IF a > b THEN a ELSE b

\* The character ` (a TLA+ string cannot hold it).
Backtick == "<backtick>"

\* Python's None, for a dictionary key that is absent or None
None == "None"

\* A rule's format information: a format key, a (key, group) tuple, or a
\* list of them.
FmtStr(k) == [kind |-> "str", key |-> k]
FmtTuple(k, g) == [kind |-> "tuple", key |-> k, group |-> g]
FmtList(items) == [kind |-> "list", items |-> items]

\* The keys of self.formats.
Formats ==
  {"keyword", "keyword_decl", "keyword_ctrl", "keyword_imp", "builtin",
   "special_var", "operator", "brace", "punctuation", "number", "func_name",
   "class_name", "decorator", "string", "string_escape", "string_special",
   "docstring", "regex", "comment", "html_tag", "html_attr_name",
   "html_attr_value", "html_entity", "css_selector", "css_property",
   "css_value", "json_key"}


\* The table of an XML highlighter that styles the content of a CDATA
\* section as string.
Xml_styled_triggers ==
  <<[key |-> "comment",
     start |-> Cat(<<Lit("<"), Lit("!"), Lit("-"), Lit("-")>>),
     end |-> Cat(<<Lit("-"), Lit("-"), Lit(">")>>),
     state |-> STATE_MULTILINE_COMMENT, format_key |-> "comment",
     internal_format |-> "comment", sub_highlighter |-> None,
     priority |-> 15],
    [key |-> "cdata",
     start |-> Cat(<<Lit("<"), Lit("!"), Lit("["), Lit("C"), Lit("D"),
                     Lit("A"), Lit("T"), Lit("A"), Lit("[")>>),
     end |-> Cat(<<Lit("]"), Lit("]"), Lit(">")>>),
     state |-> STATE_XML_CDATA, format_key |-> "string_special",
     internal_format |-> "string", sub_highlighter |-> None,
     priority |-> 20]>>

\* The highlighter classes (a factory is a class).
JavaScriptHighlighter == "JavaScriptHighlighter"
PythonHighlighter == "PythonHighlighter"
HtmlHighlighter == "HtmlHighlighter"
CssHighlighter == "CssHighlighter"
BashHighlighter == "BashHighlighter"
XmlHighlighter == "XmlHighlighter"

(***************************************************************************)
(* class JavaScriptHighlighter                                             *)
(***************************************************************************)
\* JavaScriptHighlighter.RULE_SINGLE_QUOTE, line 1182
Js_RULE_SINGLE_QUOTE == Cat(<<Lit("'"), Grp(1, Cat(<<Star(Not({"'", "\\"})),
  Star(Cat(<<Lit("\\"), Dot, Star(Not({"'", "\\"}))>>))>>)), Lit("'")>>)
\* JavaScriptHighlighter.RULE_DOUBLE_QUOTE, line 1183
Js_RULE_DOUBLE_QUOTE == Cat(<<Lit("\""), Grp(1, Cat(<<Star(Not({"\"",
  "\\"})), Star(Cat(<<Lit("\\"), Dot, Star(Not({"\"", "\\"}))>>))>>)),
  Lit("\"")>>)
\* JavaScriptHighlighter.RULE_STR_ESCAPE_COMP, line 1190
Js_RULE_STR_ESCAPE_COMP == Cat(<<Lit("\\"), Alt(<<Chr({"n", "r", "t", "v",
  "f", "b", "\\", "'", "\"", Backtick, "$"}), Cat(<<Lit("u"), Lit("{"),
  Plus(Chr(Digit \cup {"a", "b", "c", "d", "e", "f", "A", "B", "C", "D",
  "E", "F"})), Lit("}")>>), Cat(<<Lit("u"), Rep(Chr(Digit \cup {"a", "b",
  "c", "d", "e", "f", "A", "B", "C", "D", "E", "F"}), 4, 4)>>),
  Cat(<<Lit("x"), Rep(Chr(Digit \cup {"a", "b", "c", "d", "e", "f", "A",
  "B", "C", "D", "E", "F"}), 2, 2)>>), Rep(Chr(Digit), 1, 3), Dot>>)>>)
\* JavaScriptHighlighter.RULE_TEMPLATE_INTERP, line 1191
Js_RULE_TEMPLATE_INTERP == Alt(<<Grp(1, Cat(<<Lit("$"), Lit("{")>>)), Grp(2,
  Lit("}")), Grp(3, Cat(<<Lit("\\"), Lit(Backtick)>>))>>)
\* JavaScriptHighlighter.RULE_COMMENT_SINGLE, line 1156
Js_RULE_COMMENT_SINGLE == Cat(<<Lit("/"), Lit("/"), Star(Not({"\n",
  "\r"}))>>)
\* JavaScriptHighlighter.RULE_REGEX, line 1162
Js_RULE_REGEX == Grp(1, Cat(<<Lit("/"), NotAhead(Chr(Space \cup {"*",
  "/"})), Plus(Alt(<<Not({"/", "[", "\\", " ", "\n", "\r"}),
  Cat(<<Lit("\\"), Dot>>), Cat(<<Lit("["), Star(Alt(<<Not({"]", "\\", "\n",
  "\r"}), Cat(<<Lit("\\"), Dot>>)>>)), Lit("]")>>)>>)), Lit("/"),
  Rep(Chr({"g", "i", "m", "y", "u", "s"}), 0, 6)>>))
\* JavaScriptHighlighter.RULE_NUM_FLOAT_INT, line 1180
Js_RULE_NUM_FLOAT_INT == Cat(<<WordB, Alt(<<Cat(<<Chr(Digit),
  Star(Cat(<<Opt(Lit("_")), Plus(Chr(Digit))>>)), Opt(Grp(1, Cat(<<Lit("."),
  Alt(<<Opt(Cat(<<Chr(Digit), Star(Cat(<<Opt(Lit("_")),
  Plus(Chr(Digit))>>))>>)), Cat(<<>>)>>)>>)))>>), Cat(<<Lit("."),
  Chr(Digit), Star(Cat(<<Opt(Lit("_")), Plus(Chr(Digit))>>))>>)>>),
  Opt(Cat(<<Chr({"e", "E"}), Opt(Chr({"-", "+"})), Chr(Digit),
  Star(Cat(<<Opt(Lit("_")), Plus(Chr(Digit))>>))>>)), Opt(Lit("n")),
  WordB>>)
\* JavaScriptHighlighter.RULE_OPERATOR, line 1185
Js_RULE_OPERATOR == Alt(<<Cat(<<Lit("-"), Lit("-")>>), Cat(<<Lit("+"),
  Lit("+")>>), Cat(<<Lit(">"), Lit(">"), Lit(">"), Opt(Lit("="))>>),
  Cat(<<Lit(">"), Lit(">"), Opt(Lit(">")), Opt(Lit("="))>>), Cat(<<Lit("<"),
  Lit("<"), Opt(Lit("="))>>), Cat(<<Lit("?"), Lit("?"), Opt(Lit("="))>>),
  Cat(<<Lit("&"), Lit("&"), Opt(Lit("="))>>), Cat(<<Lit("|"), Lit("|"),
  Opt(Lit("="))>>), Cat(<<Lit("*"), Lit("*"), Opt(Lit("="))>>),
  Cat(<<Lit("="), Lit(">")>>), Cat(<<Lit("="), Lit("="), Opt(Lit("="))>>),
  Cat(<<Lit("!"), Lit("="), Opt(Lit("="))>>), Cat(<<Chr({"<", ">", "="}),
  Opt(Lit("="))>>), Chr({"-", "+", "*", "/", "%", "&", "|", "^", "~", "?",
  ".", "=", "!", ":"})>>)
\* The rules of the list that match some piece of the lines of Corpus, at
\* their index in the list; the others add no candidate on these lines.
Js_single_line_rules ==
  << [idx |-> 0, re |-> Js_RULE_COMMENT_SINGLE, fmt |-> FmtStr("comment")],
     [idx |-> 1, re |-> Js_RULE_REGEX, fmt |-> FmtList(<<FmtTuple("regex", 1)>>)],
     [idx |-> 15, re |-> Js_RULE_NUM_FLOAT_INT, fmt |-> FmtStr("number")],
     [idx |-> 16, re |-> Js_RULE_SINGLE_QUOTE, fmt |-> FmtList(<<FmtTuple("string", 1)>>)],
     [idx |-> 17, re |-> Js_RULE_DOUBLE_QUOTE, fmt |-> FmtList(<<FmtTuple("string", 1)>>)],
     [idx |-> 18, re |-> Js_RULE_OPERATOR, fmt |-> FmtStr("operator")] >>
\* len(self.single_line_rules)
Js_num_rules == 21
Js_multiline_triggers ==
  <<[key |-> "comment",
    start |-> Cat(<<Lit("/"), Lit("*"), NotAhead(Lit("*"))>>),
    end |-> Cat(<<Lit("*"), Lit("/")>>),
    state |-> STATE_MULTILINE_COMMENT,
    format_key |-> "comment",
    internal_format |-> "comment",
    sub_highlighter |-> None,
    priority |-> 15],
   [key |-> "template_literal",
    start |-> Lit(Backtick),
    end |-> Lit(Backtick),
    state |-> STATE_TEMPLATE_LITERAL,
    format_key |-> "string_special",
    internal_format |-> "string",
    sub_highlighter |-> None,
    priority |-> 10]>>

(***************************************************************************)
(* class PythonHighlighter                                                 *)
(***************************************************************************)
\* PythonHighlighter.RULE_SINGLE_QUOTE, line 789
Py_RULE_SINGLE_QUOTE == Cat(<<Grp(1, Star(Chr({"u", "r", "f", "U", "R",
  "F"}))), Lit("'"), Grp(2, Cat(<<Star(Not({"'", "\\"})),
  Star(Cat(<<Lit("\\"), Dot, Star(Not({"'", "\\"}))>>))>>)), Lit("'")>>)
\* PythonHighlighter.RULE_DOUBLE_QUOTE, line 790
Py_RULE_DOUBLE_QUOTE == Cat(<<Grp(1, Star(Chr({"u", "r", "f", "U", "R",
  "F"}))), Lit("\""), Grp(2, Cat(<<Star(Not({"\"", "\\"})),
  Star(Cat(<<Lit("\\"), Dot, Star(Not({"\"", "\\"}))>>))>>)), Lit("\"")>>)
\* PythonHighlighter.RULE_STR_ESCAPE_COMP, line 792
Py_RULE_STR_ESCAPE_COMP == Cat(<<Lit("\\"), Dot>>)
\* PythonHighlighter.RULE_FSTR_INTERP_COMP, line 793
Py_RULE_FSTR_INTERP_COMP == Alt(<<Grp(1, Cat(<<Lit("{"), Lit("{")>>)),
  Grp(2, Cat(<<Lit("}"), Lit("}")>>)), Grp(3, Cat(<<Lit("{"), Grp(4,
  Lazy(Not({"{", "}"}), 0, -1)), Lit("}")>>))>>)
\* PythonHighlighter.RULE_NUM_INT, line 783
Py_RULE_NUM_INT == Cat(<<WordB, Plus(Chr(Digit)), Opt(Cat(<<Chr({"e", "E"}),
  Opt(Chr({"-", "+"})), Plus(Chr(Digit))>>)), Opt(Chr({"j", "J"})),
  NotAhead(Lit(".")), WordB>>)
\* PythonHighlighter.RULE_BRACES_GENERAL, line 785
Py_RULE_BRACES_GENERAL == Chr({"(", ")", "{", "}"})
\* The rules of the list that match some piece of the lines of Corpus, at
\* their index in the list; the others add no candidate on these lines.
Py_single_line_rules ==
  << [idx |-> 14, re |-> Py_RULE_NUM_INT, fmt |-> FmtStr("number")],
     [idx |-> 16, re |-> Py_RULE_BRACES_GENERAL, fmt |-> FmtStr("brace")],
     [idx |-> 19, re |-> Py_RULE_SINGLE_QUOTE, fmt |-> FmtList(<<FmtTuple("string_special", 1), FmtTuple("string", 2)>>)],
     [idx |-> 20, re |-> Py_RULE_DOUBLE_QUOTE, fmt |-> FmtList(<<FmtTuple("string_special", 1), FmtTuple("string", 2)>>)] >>
\* len(self.single_line_rules)
Py_num_rules == 21
Py_multiline_triggers ==
  <<[key |-> "docstring",
    start |-> Cat(<<Bol, Star(Chr({" ", "\t"})), Grp(1,
       Alt(<<Cat(<<Lit("\""), Lit("\""), Lit("\"")>>), Cat(<<Lit("'"),
       Lit("'"), Lit("'")>>)>>))>>),
    end |-> Alt(<<Cat(<<Lit("\""), Lit("\""), Lit("\"")>>),
       Cat(<<Lit("'"), Lit("'"), Lit("'")>>)>>),
    state |-> STATE_DOCSTRING,
    format_key |-> "docstring",
    internal_format |-> "docstring",
    sub_highlighter |-> None,
    priority |-> 20],
   [key |-> "string3",
    start |-> Cat(<<WordB, Grp(1, Star(Chr({"u", "r", "f", "U", "R",
       "F"}))), Grp(2, Alt(<<Cat(<<Lit("\""), Lit("\""), Lit("\"")>>),
       Cat(<<Lit("'"), Lit("'"), Lit("'")>>)>>))>>),
    end |-> Alt(<<Cat(<<Lit("\""), Lit("\""), Lit("\"")>>),
       Cat(<<Lit("'"), Lit("'"), Lit("'")>>)>>),
    state |-> STATE_TRIPLE_QUOTE_STRING,
    format_key |-> "string_special",
    internal_format |-> "string",
    sub_highlighter |-> None,
    priority |-> 5]>>

(***************************************************************************)
(* class HtmlHighlighter                                                   *)
(***************************************************************************)
\* HtmlHighlighter: the pattern of rules[2], line 1439
Html_rule_2 == Cat(<<Lit("<"), Opt(Lit("/"))>>)
\* HtmlHighlighter: the pattern of rules[3], line 1440
Html_rule_3 == Cat(<<Opt(Lit("/")), Lit(">")>>)
\* HtmlHighlighter: the pattern of rules[4], line 1445
Html_rule_4 == Cat(<<Grp(1, Cat(<<Lit("<"), Opt(Lit("/"))>>)),
  Star(Chr(Space)), Grp(2, Cat(<<Chr(Lower \cup Upper),
  Star(Chr(Word \cup {":", "-"}))>>))>>)
\* The rules of the list that match some piece of the lines of Corpus, at
\* their index in the list; the others add no candidate on these lines.
Html_single_line_rules ==
  << [idx |-> 2, re |-> Html_rule_2, fmt |-> FmtStr("html_tag")],
     [idx |-> 3, re |-> Html_rule_3, fmt |-> FmtStr("html_tag")],
     [idx |-> 4, re |-> Html_rule_4, fmt |-> FmtList(<<FmtTuple("html_tag", 1), FmtTuple("html_tag", 2)>>)] >>
\* len(self.single_line_rules)
Html_num_rules == 9
Html_multiline_triggers ==
  <<[key |-> "comment",
    start |-> Cat(<<Lit("<"), Lit("!"), Lit("-"), Lit("-")>>),
    end |-> Cat(<<Lit("-"), Lit("-"), Lit(">")>>),
    state |-> STATE_MULTILINE_COMMENT,
    format_key |-> "comment",
    internal_format |-> "comment",
    sub_highlighter |-> None,
    priority |-> 5],
   [key |-> "script_tag",
    start |-> Cat(<<Lit("<"), Chr({"S", "s"}), Chr({"C", "c"}),
       Chr({"R", "r"}), Chr({"I", "i"}), Chr({"P", "p"}), Chr({"T", "t"}),
       Opt(Cat(<<Chr(Space), Star(Not({">"}))>>)), Lit(">")>>),
    end |-> Cat(<<Lit("<"), Lit("/"), Chr({"S", "s"}), Chr({"C",
       "c"}), Chr({"R", "r"}), Chr({"I", "i"}), Chr({"P", "p"}), Chr({"T",
       "t"}), Star(Chr(Space)), Lit(">")>>),
    state |-> STATE_EMBEDDED_JS_IN_HTML,
    format_key |-> "html_tag",
    internal_format |-> None,
    sub_highlighter |-> JavaScriptHighlighter,
    priority |-> 10],
   [key |-> "style_tag",
    start |-> Cat(<<Lit("<"), Chr({"S", "s"}), Chr({"T", "t"}),
       Chr({"Y", "y"}), Chr({"L", "l"}), Chr({"E", "e"}),
       Opt(Cat(<<Chr(Space), Star(Not({">"}))>>)), Lit(">")>>),
    end |-> Cat(<<Lit("<"), Lit("/"), Chr({"S", "s"}), Chr({"T",
       "t"}), Chr({"Y", "y"}), Chr({"L", "l"}), Chr({"E", "e"}),
       Star(Chr(Space)), Lit(">")>>),
    state |-> STATE_EMBEDDED_CSS_IN_HTML,
    format_key |-> "html_tag",
    internal_format |-> None,
    sub_highlighter |-> CssHighlighter,
    priority |-> 10]>>

(***************************************************************************)
(* class CssHighlighter                                                    *)
(***************************************************************************)
\* CssHighlighter: the pattern of rules[11], line 1616
Css_rule_11 == Cat(<<Grp(1, Cat(<<Opt(Chr({"-", "+"})),
  Opt(Cat(<<Star(Chr(Digit)), Lit(".")>>)), Plus(Chr(Digit)),
  Opt(Cat(<<Chr({"e", "E"}), Opt(Chr({"-", "+"})), Plus(Chr(Digit))>>))>>)),
  Opt(Grp(2, Alt(<<Lit("%"), Cat(<<WordB, Alt(<<Cat(<<Lit("p"), Lit("x")>>),
  Cat(<<Lit("e"), Lit("m")>>), Cat(<<Lit("r"), Lit("e"), Lit("m")>>),
  Cat(<<Lit("v"), Lit("w")>>), Cat(<<Lit("v"), Lit("h")>>), Cat(<<Lit("v"),
  Lit("m"), Lit("i"), Lit("n")>>), Cat(<<Lit("v"), Lit("m"), Lit("a"),
  Lit("x")>>), Cat(<<Lit("c"), Lit("m")>>), Cat(<<Lit("m"), Lit("m")>>),
  Cat(<<Lit("i"), Lit("n")>>), Cat(<<Lit("p"), Lit("t")>>), Cat(<<Lit("p"),
  Lit("c")>>), Cat(<<Lit("c"), Lit("h")>>), Cat(<<Lit("e"), Lit("x")>>),
  Cat(<<Lit("d"), Lit("e"), Lit("g")>>), Cat(<<Lit("g"), Lit("r"), Lit("a"),
  Lit("d")>>), Cat(<<Lit("r"), Lit("a"), Lit("d")>>), Cat(<<Lit("t"),
  Lit("u"), Lit("r"), Lit("n")>>), Lit("s"), Cat(<<Lit("m"), Lit("s")>>),
  Cat(<<Lit("H"), Lit("z")>>), Cat(<<Lit("k"), Lit("H"), Lit("z")>>),
  Cat(<<Lit("d"), Lit("p"), Lit("i")>>), Cat(<<Lit("d"), Lit("p"), Lit("c"),
  Lit("m")>>), Cat(<<Lit("d"), Lit("p"), Lit("p"), Lit("x")>>),
  Cat(<<Lit("f"), Lit("r")>>)>>), WordB>>)>>)))>>)
\* CssHighlighter: the pattern of rules[17], line 1627
Css_rule_17 == Chr({">", "+", "~", "(", ")", "[", "]", "/", "*"})
\* The rules of the list that match some piece of the lines of Corpus, at
\* their index in the list; the others add no candidate on these lines.
Css_single_line_rules ==
  << [idx |-> 11, re |-> Css_rule_11, fmt |-> FmtList(<<FmtTuple("number", 1), FmtTuple("css_value", 2)>>)],
     [idx |-> 17, re |-> Css_rule_17, fmt |-> FmtStr("operator")] >>
\* len(self.single_line_rules)
Css_num_rules == 18
Css_multiline_triggers ==
  <<[key |-> "comment",
    start |-> Cat(<<Lit("/"), Lit("*")>>),
    end |-> Cat(<<Lit("*"), Lit("/")>>),
    state |-> STATE_MULTILINE_COMMENT,
    format_key |-> "comment",
    internal_format |-> "comment",
    sub_highlighter |-> None,
    priority |-> 20]>>

(***************************************************************************)
(* class BashHighlighter                                                   *)
(***************************************************************************)
\* BashHighlighter.RULE_VARIABLE, line 2071
Bash_RULE_VARIABLE == Grp(1, Cat(<<Lit("$"),
  Alt(<<Plus(Chr(Word \cup Digit \cup {"_"})), Cat(<<Lit("{"),
  Star(Not({"}"})), Lit("}")>>)>>)>>))
\* BashHighlighter.RULE_CMD_SUBST_BACKTICK, line 2073
Bash_RULE_CMD_SUBST_BACKTICK == Cat(<<Lit(Backtick), Star(Not({Backtick})),
  Lit(Backtick)>>)
\* BashHighlighter.RULE_CMD_SUBST_DOLLAR, line 2074
Bash_RULE_CMD_SUBST_DOLLAR == Cat(<<Lit("$"), Lit("("), Star(Not({")"})),
  Lit(")")>>)
\* BashHighlighter.RULE_REDIRECT, line 2088
Bash_RULE_REDIRECT == Cat(<<Plus(Chr({"<", ">"})), Opt(Lit("&")),
  Star(Chr(Digit))>>)
\* The rules of the list that match some piece of the lines of Corpus, at
\* their index in the list; the others add no candidate on these lines.
Bash_single_line_rules ==
  << [idx |-> 4, re |-> Bash_RULE_VARIABLE, fmt |-> FmtStr("special_var")],
     [idx |-> 6, re |-> Bash_RULE_CMD_SUBST_BACKTICK, fmt |-> FmtStr("string_special")],
     [idx |-> 7, re |-> Bash_RULE_CMD_SUBST_DOLLAR, fmt |-> FmtStr("string_special")],
     [idx |-> 15, re |-> Bash_RULE_REDIRECT, fmt |-> FmtStr("operator")] >>
\* len(self.single_line_rules)
Bash_num_rules == 19
\* The end pattern of the heredoc trigger of an instance: the pattern of
\* __init__, or the pattern apply_multiline_format has put in its place.
Bash_heredoc_end(self) == IF self.heredoc = <<>> THEN Cat(<<Bol,
  Star(Chr(Space)), Plus(Chr(Word)), Eol>>) ELSE Cat(<<Bol,
  Star(Chr(Space)), Grp(1, Str(self.heredoc)), Eol>>)
Bash_multiline_triggers(self) ==
  <<[key |-> "heredoc",
    start |-> Cat(<<Lit("<"), Lit("<"), Opt(Lit("-")),
       Star(Chr(Space)), Grp(1, Opt(Chr({"\"", "'"}))), Grp(2,
       Plus(Chr(Word))), Ref(1)>>),
    end |-> Bash_heredoc_end(self),
    state |-> STATE_TRIPLE_QUOTE_STRING,
    format_key |-> "string_special",
    internal_format |-> "string",
    sub_highlighter |-> None,
    priority |-> 10]>>

(***************************************************************************)
(* class XmlHighlighter                                                    *)
(***************************************************************************)
\* XmlHighlighter: the pattern of rules[6], line 1698
Xml_rule_6 == Grp(1, Cat(<<Opt(Lit("/")), Lit(">")>>))
\* XmlHighlighter: the pattern of rules[7], line 1701
Xml_rule_7 == Cat(<<Grp(1, Cat(<<Lit("<"), Opt(Lit("/"))>>)),
  Star(Chr(Space)), Grp(2, Plus(Chr(Word \cup {":", ".", "-"})))>>)
\* XmlHighlighter: the pattern of rules[14], line 1719
Xml_rule_14 == Grp(1, Lit("<"))
\* The rules of the list that match some piece of the lines of Corpus, at
\* their index in the list; the others add no candidate on these lines.
Xml_single_line_rules ==
  << [idx |-> 6, re |-> Xml_rule_6, fmt |-> FmtStr("html_tag")],
     [idx |-> 7, re |-> Xml_rule_7, fmt |-> FmtList(<<FmtTuple("html_tag", 1), FmtTuple("html_tag", 2)>>)],
     [idx |-> 14, re |-> Xml_rule_14, fmt |-> FmtStr("html_tag")] >>
\* len(self.single_line_rules)
Xml_num_rules == 15
Xml_multiline_triggers ==
  <<[key |-> "comment",
    start |-> Cat(<<Lit("<"), Lit("!"), Lit("-"), Lit("-")>>),
    end |-> Cat(<<Lit("-"), Lit("-"), Lit(">")>>),
    state |-> STATE_MULTILINE_COMMENT,
    format_key |-> "comment",
    internal_format |-> "comment",
    sub_highlighter |-> None,
    priority |-> 15],
   [key |-> "cdata",
    start |-> Cat(<<Lit("<"), Lit("!"), Lit("["), Lit("C"),
       Lit("D"), Lit("A"), Lit("T"), Lit("A"), Lit("[")>>),
    end |-> Cat(<<Lit("]"), Lit("]"), Lit(">")>>),
    state |-> STATE_XML_CDATA,
    format_key |-> "string_special",
    internal_format |-> None,
    sub_highlighter |-> None,
    priority |-> 20]>>

(***************************************************************************)
(* The lines typed in an editing session, per kind of file.                *)
(***************************************************************************)
Families == {"js", "py", "web", "sh"}
Corpus(f) ==
  CASE f = "js" ->
        {<<"/", "a", "/", "*", "b", "*", "/">>,
         <<"\"", "a", "\\", "n", "b", "\"">>,
         <<"/", "*", "a">>,
         <<"a", "*", "/">>,
         <<"*", "/", "/", "*">>}
    [] f = "py" ->
        {<<"\"", "a", "\\", "n", "b", "\"">>,
         <<"\"", "\"", "\"">>,
         <<"\"", "\"", "\"", "a", "\"", "\"", "\"">>,
         <<"r", "\"", "\"", "\"">>,
         <<"a">>}
    [] f = "web" ->
        {<<"<", "s", "c", "r", "i", "p", "t", ">">>,
         <<"1", "<", "/", "s", "c", "r", "i", "p", "t", ">">>,
         <<"<", "s", "c", "r", "i", "p", "t", ">", "1", "<", "/", "s", "c", "r", "i", "p", "t", ">">>,
         <<"<", "s", "t", "y", "l", "e", ">">>,
         <<"1">>}
    [] f = "sh" ->
        {<<"<", "<", "A">>,
         <<"A">>,
         <<"<", "<", "B">>,
         <<"$", "x">>}
    [] f = "str" ->
        {<<"'", "\"", "\\", "n", "'", " ", "\"">>,
         <<"r", "'", "\"", "\\", "n", "'", " ", "\"">>,
         <<"\"", "a", "\\", "n", "b", "\"">>,
         <<"'", "a", "'">>}
    [] f = "pre" ->
        {<<"r", "\"", "\"", "\"", "\\", "n">>,
         <<"f", "\"", "\"", "\"", "{", "a", "}">>,
         <<"\\", "n", "{", "a", "}">>,
         <<"\\", "n", "{", "a", "}", "\"", "\"", "\"">>}
    [] f = "quo" ->
        {<<"\"", "\"", "\"">>,
         <<"'", "'", "'">>,
         <<"r", "\"", "\"", "\"">>,
         <<"r", "'", "'", "'">>,
         <<"a">>}
    [] f = "seg" ->
        {<<"1", "/", "*", "2">>,
         <<"1", Backtick, "2">>,
         <<"1", " ", "2">>,
         <<"1", "/", "*", "2", "*", "/", "3">>}
    [] f = "tpl" ->
        {<<Backtick>>,
         <<Backtick, "a", Backtick>>,
         <<Backtick, "a", Backtick, "1">>,
         <<"\"", "\"", "\"">>,
         <<"\"", "\"", "\"", "a", "\"", "\"", "\"">>,
         <<"r", "\"", "\"", "\"", "a", "\"", "\"", "\"">>}
    [] f = "xml" ->
        {<<"<", "!", "[", "C", "D", "A", "T", "A", "[", "a", "<", "b">>,
         <<"a", "<", "b">>,
         <<"a", "<", "b", "]", "]", ">">>,
         <<"<", "!", "[", "C", "D", "A", "T", "A", "[", "a", "<", "b", "]", "]", ">", "<", "c">>,
         <<"<", "!", "-", "-", "a", "<", "b">>,
         <<"a", "<", "b", "-", "-", ">", "<", "c">>}

(***************************************************************************)
(* A highlighter instance: its class and the fields a call can change: the *)
(* delimiter of the heredoc trigger's end pattern (<<>> for the pattern of *)
(* __init__) and the entries of _sub_highlighters_cache, each a factory    *)
(* and the instance it made: [factory, id], the id telling the instances   *)
(* that the highlighter created one from the other.  factory_raises        *)
(* tells whether factory(None, self.colors) raises where the program runs: *)
(* what the Qt binding does with a highlighter built without a document is *)
(* not the program's to decide.                                            *)
(***************************************************************************)
NewInstance(cls) ==
  [cls |-> cls, heredoc |-> <<>>, cache |-> {}, factory_raises |-> FALSE]

\* None where an instance is expected
NoInstance == NewInstance(None)

single_line_rules(self) ==
  CASE self.cls = JavaScriptHighlighter -> Js_single_line_rules
    [] self.cls = PythonHighlighter -> Py_single_line_rules
    [] self.cls = HtmlHighlighter -> Html_single_line_rules
    [] self.cls = CssHighlighter -> Css_single_line_rules
    [] self.cls = BashHighlighter -> Bash_single_line_rules
    [] self.cls = XmlHighlighter -> Xml_single_line_rules

num_rules(self) ==
  CASE self.cls = JavaScriptHighlighter -> Js_num_rules
    [] self.cls = PythonHighlighter -> Py_num_rules
    [] self.cls = HtmlHighlighter -> Html_num_rules
    [] self.cls = CssHighlighter -> Css_num_rules
    [] self.cls = BashHighlighter -> Bash_num_rules
    [] self.cls = XmlHighlighter -> Xml_num_rules

multiline_triggers(self) ==
  CASE self.cls = JavaScriptHighlighter -> Js_multiline_triggers
    [] self.cls = PythonHighlighter -> Py_multiline_triggers
    [] self.cls = HtmlHighlighter -> Html_multiline_triggers
    [] self.cls = CssHighlighter -> Css_multiline_triggers
    [] self.cls = BashHighlighter -> Bash_multiline_triggers(self)
    [] self.cls = XmlHighlighter -> Xml_multiline_triggers

\* self.multiline_triggers[trigger_key]
RECURSIVE TriggerAt(_, _, _)
TriggerAt(triggers, key, k) ==
  IF triggers[k].key = key THEN triggers[k] ELSE TriggerAt(triggers, key, k + 1)
TriggerByKey(self, key) == TriggerAt(multiline_triggers(self), key, 1)

\* The states of the constructs of a highlighter's table.
TriggerStates(self) ==
  {multiline_triggers(self)[k].state : k \in DOMAIN multiline_triggers(self)}

(***************************************************************************)
(* The context of one highlightBlock call: the setFormat calls made so far *)
(* (fmt), the offsets whose applied_range entry is True (applied), the     *)
(* setCurrentBlockState calls made so far (writes), the instance, the      *)
(* construct start that the loop applied without its end on the line       *)
(* (opened: did_set_state_in_loop) and the segments the call handed to a   *)
(* sub-highlighter (segments).                                             *)
(* A span is [s |-> start, n |-> length, k |-> format key, by |-> writer]; *)
(* the writer is "rule" (a single-line rule), "delim" (a construct         *)
(* delimiter), "content" (construct content), "internal" (the              *)
(* internal-rule pass) or "sub" (a sub-highlighter).                       *)
(***************************************************************************)
\* opened when did_set_state_in_loop is False
NoOpen == [key |-> None, s |-> -1, e |-> -1]

NewContext(self) ==
  [fmt |-> <<>>, applied |-> {}, writes |-> <<>>, self |-> self,
   opened |-> NoOpen, segments |-> <<>>]

\* QSyntaxHighlighter.setFormat(start, count, format): nothing outside the
\* block; the count is cut at the end of the block.
setFormat(c, text, start, count, key, by) ==
  IF start < 0 \/ start >= Len(text) \/ count <= 0 THEN c
  ELSE [c EXCEPT !.fmt = Append(@, [s |-> start,
                                    n |-> Min(count, Len(text) - start),
                                    k |-> key, by |-> by])]

\* setCurrentBlockState that leaves the state of the block as it was
ignoreCurrentBlockState(c, newState) == c

setCurrentBlockState(c, newState) == [c EXCEPT !.writes = Append(@, newState)]

\* QSyntaxHighlighter.currentBlockState(): the state the block holds, which
\* is the state an earlier pass left (stored) until this call sets one.
currentBlockState(c, stored) ==
  IF c.writes = <<>> THEN stored ELSE c.writes[Len(c.writes)]

\* for k in range(from, to): if k < len(applied_range): applied_range[k] = True
MarkApplied(c, text, from, to) ==
  [c EXCEPT !.applied = @ \cup {k \in from..(to - 1) : k >= 0 /\ k < Len(text)}]

(***************************************************************************)
(* _find_matches                                                           *)
(***************************************************************************)
RECURSIVE RuleMatches(_, _, _, _)
RuleMatches(rules, k, text, start_offset) ==
  IF k > Len(rules) THEN <<>>
  ELSE LET \* ms: the matches of re.finditer
           Candidates(ms) ==
             [j \in 1..Len(ms) |->
                [match |-> ms[j], format_info |-> rules[k].fmt,
                 type |-> "single", rule_index |-> rules[k].idx]]
       IN Candidates(FindIter(rules[k].re, text, start_offset))
          \o RuleMatches(rules, k + 1, text, start_offset)

rule_index_effective(base_idx, key_index, priority_boost) ==
  Max(0, base_idx + key_index - priority_boost * 10)

RECURSIVE TriggerMatches(_, _, _, _, _)
TriggerMatches(triggers, base_idx, k, text, start_offset) ==
  IF k > Len(triggers) THEN <<>>
  ELSE LET key_index == k - 1
           \* ms: the matches of re.finditer
           Candidates(ms) ==
             [j \in 1..Len(ms) |->
                [match |-> ms[j], trigger_key |-> triggers[k].key,
                 type |-> "multi_start",
                 rule_index |-> rule_index_effective(base_idx, key_index,
                                                     triggers[k].priority)]]
       IN Candidates(FindIter(triggers[k].start, text, start_offset))
          \o TriggerMatches(triggers, base_idx, k + 1, text, start_offset)

_find_matches(self, text, current_state, start_offset) ==
  IF current_state = STATE_DEFAULT
  THEN RuleMatches(single_line_rules(self), 1, text, start_offset)
       \o TriggerMatches(multiline_triggers(self), num_rules(self), 1, text,
                         start_offset)
  ELSE <<>>

\* The sort key that is the match start alone.
StartLess(a, b) == a.match.s < b.match.s

\* matches.sort(key=lambda m: (start, -(end - start), rule_index)): a stable
\* sort, so candidates with equal keys keep the order _find_matches gave.
KeyLess(a, b) ==
  LET la == a.match.e - a.match.s
      lb == b.match.e - b.match.s
  IN \/ a.match.s < b.match.s
     \/ a.match.s = b.match.s /\ la > lb
     \/ a.match.s = b.match.s /\ la = lb /\ a.rule_index < b.rule_index

RECURSIVE InsertSorted(_, _)
InsertSorted(sorted, m) ==
  IF sorted = <<>> THEN <<m>>
  ELSE IF KeyLess(m, Head(sorted)) THEN <<m>> \o sorted
  ELSE <<Head(sorted)>> \o InsertSorted(Tail(sorted), m)

RECURSIVE SortMatches(_, _)
SortMatches(ms, k) ==
  IF k = 0 THEN <<>> ELSE InsertSorted(SortMatches(ms, k - 1), ms[k])


(***************************************************************************)
(* Applying a format to the parts of a span that no earlier candidate has  *)
(* taken: the inner loops of _apply_single_line_match and of               *)
(* _apply_format_to_group.  The result is [c |-> context, ok |-> whether   *)
(* anything was formatted].                                                *)
(***************************************************************************)
RECURSIVE NextFree(_, _, _, _)
NextFree(c, text, current_pos, group_end) ==
  IF current_pos < group_end
     /\ (current_pos >= Len(text) \/ current_pos \in c.applied)
  THEN NextFree(c, text, current_pos + 1, group_end)
  ELSE current_pos

RECURSIVE SegmentEnd(_, _, _, _)
SegmentEnd(c, text, segment_end, group_end) ==
  IF segment_end < group_end
     /\ (segment_end < Len(text) /\ segment_end \notin c.applied)
  THEN SegmentEnd(c, text, segment_end + 1, group_end)
  ELSE segment_end

RECURSIVE ApplyToFreeSegments(_, _, _, _, _)
ApplyToFreeSegments(c, text, current_pos, group_end, format_key) ==
  LET segment_start == NextFree(c, text, current_pos, group_end)
      segment_end == SegmentEnd(c, text, segment_start, group_end)
      apply_len == segment_end - segment_start
  IN IF current_pos >= group_end \/ segment_start >= group_end
     THEN [c |-> c, ok |-> FALSE]
     ELSE IF apply_len > 0 /\ segment_start >= 0
             /\ segment_start + apply_len <= Len(text)
     THEN LET c1 == MarkApplied(setFormat(c, text, segment_start, apply_len,
                                          format_key, "rule"),
                                text, segment_start, segment_end)
              r == ApplyToFreeSegments(c1, text, segment_end, group_end,
                                       format_key)
          IN [c |-> r.c, ok |-> TRUE]
     ELSE ApplyToFreeSegments(c, text, segment_end, group_end, format_key)

\* PythonHighlighter._apply_format_to_group, which
\* JavaScriptHighlighter._apply_format_to_group repeats
_apply_format_to_group(c, match_info, group_index, format_key, text) ==
  LET span == GroupSpan(match_info.match, group_index)
  IN IF format_key \notin Formats \/ span = IndexError
        \/ span[1] = -1 \/ span[2] = -1 \/ span[2] <= span[1]
     THEN [c |-> c, ok |-> FALSE]
     ELSE ApplyToFreeSegments(c, text, span[1], span[2], format_key)

\* lines 450-469: fmt_info as a list of (format_key, group) pairs
processed_fmt_list(fmt_info) ==
  CASE fmt_info.kind = "str" -> <<[key |-> fmt_info.key, group |-> 0]>>
    [] fmt_info.kind = "tuple" ->
         <<[key |-> fmt_info.key, group |-> fmt_info.group]>>
    [] fmt_info.kind = "list" ->
         [j \in 1..Len(fmt_info.items) |->
            [key |-> fmt_info.items[j].key,
             group |-> IF fmt_info.items[j].kind = "tuple"
                       THEN fmt_info.items[j].group ELSE 0]]

RECURSIVE StopAtInvalid(_, _, _, _, _)
\* The loop over the pairs that ends at the first pair whose group the
\* pattern does not have or that took no part in the match.
StopAtInvalid(c, match, fmts, k, text) ==
  IF k > Len(fmts) THEN [c |-> c, ok |-> FALSE]
  ELSE IF GroupSpan(match, fmts[k].group) = IndexError
          \/ GroupSpan(match, fmts[k].group)[1] = -1
  THEN [c |-> c, ok |-> FALSE]
  ELSE StopAtInvalid(
         IF fmts[k].key \in Formats
            /\ GroupSpan(match, fmts[k].group)[2]
                 > GroupSpan(match, fmts[k].group)[1]
         THEN ApplyToFreeSegments(c, text, GroupSpan(match, fmts[k].group)[1],
                                  GroupSpan(match, fmts[k].group)[2],
                                  fmts[k].key).c
         ELSE c,
         match, fmts, k + 1, text)

RECURSIVE ApplyFmtList(_, _, _, _, _)
ApplyFmtList(c, match, fmts, k, text) ==
  IF k > Len(fmts) THEN [c |-> c, ok |-> FALSE]
  ELSE LET span == GroupSpan(match, fmts[k].group)
           skip == \/ fmts[k].key \notin Formats
                   \/ span = IndexError
                   \/ span[1] = -1 \/ span[2] = -1
                   \/ span[2] <= span[1]
           \* r1 is the result of this pair, r2 that of the pairs after it
           Both(r1, r2) == [c |-> r2.c, ok |-> r1.ok \/ r2.ok]
           Rest(r1) == Both(r1, ApplyFmtList(r1.c, match, fmts, k + 1, text))
       IN Rest(IF skip THEN [c |-> c, ok |-> FALSE]
               ELSE ApplyToFreeSegments(c, text, span[1], span[2],
                                        fmts[k].key))

\* SyntaxHighlighter._apply_single_line_match
Base_apply_single_line_match(c, match_info, text) ==
  ApplyFmtList(c, match_info.match, processed_fmt_list(match_info.format_info),
               1, text)

(***************************************************************************)
(* apply_rules_within_range: the internal-rule pass                        *)
(***************************************************************************)
NoKwargs == [is_fstring |-> FALSE, is_raw |-> FALSE]

\* match.group(n) is a non-empty string
GroupTruthy(m, n) == m.g[n][1] # -1 /\ m.g[n][2] > m.g[n][1]

RECURSIVE Flatten(_, _)
Flatten(seqs, k) ==
  IF k > Len(seqs) THEN <<>> ELSE seqs[k] \o Flatten(seqs, k + 1)

\* "3. Apply formats collected": each (start, length, key) inside the range
RECURSIVE ApplyCollected(_, _, _, _, _, _)
ApplyCollected(c, text, formats_to_apply, k, start, length) ==
  IF k > Len(formats_to_apply) THEN c
  ELSE LET f == formats_to_apply[k]
           c1 == IF f[1] >= start /\ f[1] + f[2] <= start + length
                    /\ f[1] >= 0 /\ f[1] + f[2] <= Len(text)
                 THEN setFormat(c, text, f[1], f[2], f[3], "internal")
                 ELSE c
       IN ApplyCollected(c1, text, formats_to_apply, k + 1, start, length)

Js_apply_rules_within_range(c, text, start, length, current_state) ==
  IF length <= 0 THEN c
  ELSE
    LET segment == Slice(text, start, length)
        offset == start
        \* esc: the matches of RULE_STR_ESCAPE_COMP, int: those of
        \* RULE_TEMPLATE_INTERP
        formats_to_apply(esc, int) ==
          [j \in 1..Len(esc) |->
             <<offset + esc[j].s, esc[j].e - esc[j].s, "string_escape">>]
          \o Flatten([j \in 1..Len(int) |->
               IF GroupTruthy(int[j], 1)
               THEN << <<offset + int[j].s, 2, "string_special">> >>
               ELSE IF GroupTruthy(int[j], 2)
               THEN << <<offset + int[j].s, 1, "string_special">> >>
               ELSE IF GroupTruthy(int[j], 3)
               THEN << <<offset + int[j].s, 2, "string_escape">> >>
               ELSE <<>>], 1)
    IN ApplyCollected(c, text,
         formats_to_apply(
           IF "string_escape" \in Formats
              /\ current_state \in {STATE_DEFAULT, STATE_TEMPLATE_LITERAL}
           THEN FindIter(Js_RULE_STR_ESCAPE_COMP, segment, 0) ELSE <<>>,
           IF "string_special" \in Formats
              /\ current_state = STATE_TEMPLATE_LITERAL
           THEN FindIter(Js_RULE_TEMPLATE_INTERP, segment, 0) ELSE <<>>),
         1, start, length)

Py_apply_rules_within_range(c, text, start, length, current_state, kwargs) ==
  IF length <= 0 \/ current_state = STATE_DOCSTRING THEN c
  ELSE
    LET segment_full_text == Slice(text, start, length)
        offset == start
        \* esc: the matches of RULE_STR_ESCAPE_COMP, int: those of
        \* RULE_FSTR_INTERP_COMP
        formats_to_apply(esc, int) ==
          [j \in 1..Len(esc) |->
             <<offset + esc[j].s, esc[j].e - esc[j].s, "string_escape">>]
          \o Flatten([j \in 1..Len(int) |->
               IF GroupTruthy(int[j], 1) \/ GroupTruthy(int[j], 2)
               THEN << <<offset + int[j].s, 2, "string_special">> >>
               ELSE IF GroupTruthy(int[j], 3)
               THEN << <<offset + int[j].s, 1, "string_special">>,
                       <<offset + int[j].e - 1, 1, "string_special">> >>
               ELSE <<>>], 1)
    IN ApplyCollected(c, text,
         formats_to_apply(
           IF "string_escape" \in Formats /\ ~kwargs.is_raw
           THEN FindIter(Py_RULE_STR_ESCAPE_COMP, segment_full_text, 0)
           ELSE <<>>,
           IF kwargs.is_fstring /\ "string_special" \in Formats
           THEN FindIter(Py_RULE_FSTR_INTERP_COMP, segment_full_text, 0)
           ELSE <<>>),
         1, start, length)

RECURSIVE ApplyMatches(_, _, _, _, _, _)
ApplyMatches(c, text, ms, k, offset, key) ==
  IF k > Len(ms) THEN c
  ELSE ApplyMatches(IF ms[k].e - ms[k].s > 0
                    THEN setFormat(c, text, offset + ms[k].s,
                                   ms[k].e - ms[k].s, key, "internal")
                    ELSE c,
                    text, ms, k + 1, offset, key)

Bash_apply_rules_within_range(c, text, start, length, current_state) ==
  IF length <= 0 THEN c
  ELSE IF current_state = STATE_DEFAULT
          \/ current_state = STATE_TRIPLE_QUOTE_STRING
  THEN LET segment == Slice(text, start, length)
           offset == start
           \* c1 is the context after the variable references
           Substitutions(c1) ==
             IF "string_special" \in Formats
             THEN ApplyMatches(c1, text,
                    FindIter(Bash_RULE_CMD_SUBST_BACKTICK, segment, 0)
                    \o FindIter(Bash_RULE_CMD_SUBST_DOLLAR, segment, 0),
                    1, offset, "string_special")
             ELSE c1
       IN Substitutions(IF "special_var" \in Formats
                        THEN ApplyMatches(c, text,
                                          FindIter(Bash_RULE_VARIABLE, segment,
                                                   0),
                                          1, offset, "special_var")
                        ELSE c)
  ELSE c

\* self.apply_rules_within_range(...): the override of the instance's class;
\* the base implementation does nothing
apply_rules_within_range(c, text, start, length, current_state, kwargs) ==
  CASE c.self.cls = JavaScriptHighlighter ->
         Js_apply_rules_within_range(c, text, start, length, current_state)
    [] c.self.cls = PythonHighlighter ->
         Py_apply_rules_within_range(c, text, start, length, current_state,
                                     kwargs)
    [] c.self.cls = BashHighlighter ->
         Bash_apply_rules_within_range(c, text, start, length, current_state)
    [] OTHER -> c

(***************************************************************************)
(* _apply_single_line_match of the subclasses                              *)
(***************************************************************************)
\* the offsets of range(content_start, content_end) whose applied_range
\* entry is True
FormattedIn(c, text, content_start, content_end) ==
  {k \in content_start..(content_end - 1) : k < Len(text) /\ k \in c.applied}

\* The least and the greatest of a non-empty set of offsets.
RECURSIVE LeastFrom(_, _)
LeastFrom(S, k) == IF k \in S THEN k ELSE LeastFrom(S, k + 1)
SetMin(S) == LeastFrom(S, 0)

RECURSIVE GreatestFrom(_, _, _)
GreatestFrom(S, k, n) ==
  IF k \in S
  THEN (IF n = 1 THEN k ELSE GreatestFrom(S, k + 1, n - 1))
  ELSE GreatestFrom(S, k + 1, n)
SetMax(S) == GreatestFrom(S, 0, Cardinality(S))

\* "3. If content was formatted (at least partially), apply internal
\* rules": r is the result of formatting the content group, formatted the
\* offsets of the content whose applied_range entry is True
ApplyInternal(r, text, content, formatted, kwargs) ==
  IF r.ok /\ content[1] # -1 /\ content[2] > content[1] /\ formatted # {}
  THEN apply_rules_within_range(r.c, text, SetMin(formatted),
                                (SetMax(formatted) - SetMin(formatted)) + 1,
                                STATE_DEFAULT, kwargs)
  ELSE r.c

Py_apply_single_line_match(c, match_info, text) ==
  LET match == match_info.match
      rule_pattern == match.re
  IN IF rule_pattern = Py_RULE_SINGLE_QUOTE
        \/ rule_pattern = Py_RULE_DOUBLE_QUOTE
     THEN
       LET prefix_group_idx == 1
           content_group_idx == 2
           prefix == IF Groups(match.re) >= prefix_group_idx
                     THEN SubSeq(text, match.g[1][1] + 1, match.g[1][2])
                     ELSE <<>>
           content == GroupSpan(match, content_group_idx)
           is_fstring == \E j \in DOMAIN prefix : prefix[j] \in {"f", "F"}
           is_raw == \E j \in DOMAIN prefix : prefix[j] \in {"r", "R"}
           \* r1 is the result for the prefix, r2 that for the content
           Internal(r1, r2) ==
             [c |-> ApplyInternal(r2, text, content,
                                  FormattedIn(r2.c, text, content[1],
                                              content[2]),
                                  [is_fstring |-> is_fstring,
                                   is_raw |-> is_raw]),
              ok |-> r1.ok \/ r2.ok]
           Content(r1) ==
             Internal(r1,
                      IF Groups(match.re) >= content_group_idx
                      THEN _apply_format_to_group(r1.c, match_info,
                                                  content_group_idx, "string",
                                                  text)
                      ELSE [c |-> r1.c, ok |-> FALSE])
       IN Content(IF prefix # <<>>
                  THEN _apply_format_to_group(c, match_info, prefix_group_idx,
                                              "string_special", text)
                  ELSE [c |-> c, ok |-> FALSE])
     ELSE Base_apply_single_line_match(c, match_info, text)

Js_apply_single_line_match(c, match_info, text) ==
  LET match == match_info.match
      rule_pattern == match.re
  IN IF rule_pattern = Js_RULE_SINGLE_QUOTE
        \/ rule_pattern = Js_RULE_DOUBLE_QUOTE
     THEN
       LET content_group_idx == 1
           content == GroupSpan(match, content_group_idx)
           \* r is the result for the content
           Internal(r) ==
             [c |-> ApplyInternal(r, text, content,
                                  FormattedIn(r.c, text, content[1],
                                              content[2]),
                                  NoKwargs),
              ok |-> r.ok]
       IN Internal(_apply_format_to_group(c, match_info, content_group_idx,
                                          "string", text))
     ELSE Base_apply_single_line_match(c, match_info, text)

\* self._apply_single_line_match(match_info, text, applied_range)
_apply_single_line_match(c, match_info, text) ==
  CASE c.self.cls = PythonHighlighter ->
         Py_apply_single_line_match(c, match_info, text)
    [] c.self.cls = JavaScriptHighlighter ->
         Js_apply_single_line_match(c, match_info, text)
    [] OTHER -> Base_apply_single_line_match(c, match_info, text)


(***************************************************************************)
(* apply_multiline_format.  The result is [c |-> context, consumed |->     *)
(* consumed length, ended |-> whether the construct ended on the line].    *)
(***************************************************************************)
\* if cond: self.setFormat(start, count, self.formats[key])
setFormatIf(cond, c, text, start, count, key, by) ==
  IF cond THEN setFormat(c, text, start, count, key, by) ELSE c

\* lines 539-616, start_match and end_match being the matches of the start
\* pattern at start_index and of the end pattern after the start delimiter
BaseFormat(c, text, start_index, trigger, is_continuation, start_match, end_match) ==
  LET main_format_key == trigger.format_key
      content_format_key == trigger.internal_format
      next_state == trigger.state
      main_fmt == main_format_key # None /\ main_format_key \in Formats
      content_fmt == content_format_key # None
                     /\ content_format_key \in Formats
      start_match_len == IF is_continuation THEN 0
                         ELSE start_match.e - start_match.s
      content_start == IF is_continuation THEN start_index
                       ELSE start_match.e
      c1 == setFormatIf(~is_continuation /\ main_fmt /\ start_match_len > 0,
                        c, text, start_match.s, start_match_len,
                        main_format_key, "delim")
  IN IF ~is_continuation /\ ~IsMatch(start_match)
     THEN [c |-> setCurrentBlockState(c, STATE_DEFAULT), consumed |-> 0,
           ended |-> TRUE]
     ELSE IF ~IsMatch(end_match)
     THEN LET content_len == Len(text) - content_start
              c2 == setFormatIf(content_len > 0 /\ content_fmt, c1, text,
                                content_start, content_len,
                                content_format_key, "content")
          IN [c |-> setCurrentBlockState(c2, next_state),
              consumed |-> start_match_len + content_len, ended |-> FALSE]
     ELSE LET content_len == end_match.s - content_start
              c2 == setFormatIf(content_len > 0 /\ content_fmt, c1, text,
                                content_start, content_len,
                                content_format_key, "content")
              end_match_len == end_match.e - end_match.s
              c3 == setFormatIf(end_match_len > 0 /\ main_fmt, c2, text,
                                end_match.s, end_match_len, main_format_key,
                                "delim")
          IN [c |-> setCurrentBlockState(c3, STATE_DEFAULT),
              consumed |-> start_match_len + content_len
                           + (IF end_match_len > 0 THEN end_match_len ELSE 0),
              ended |-> TRUE]

\* The end pattern searched from start_index on the start line too.
BaseFormatFromIndex(c, text, start_index, trigger, is_continuation, start_match) ==
  BaseFormat(c, text, start_index, trigger, is_continuation, start_match,
             ReSearch(trigger.end, text, start_index))

\* search_for_end_from, then end_pattern.search(text, search_for_end_from)
BaseFormatFrom(c, text, start_index, trigger, is_continuation, start_match) ==
  BaseFormat(c, text, start_index, trigger, is_continuation, start_match,
             ReSearch(trigger.end, text,
                      IF is_continuation THEN start_index ELSE start_match.e))

\* SyntaxHighlighter.apply_multiline_format
Base_apply_multiline_format(c, text, start_index, trigger, is_continuation) ==
  BaseFormatFrom(c, text, start_index, trigger, is_continuation,
                 ReMatch(trigger.start, text, start_index))

\* PythonHighlighter.apply_multiline_format for string3, start_match and
\* end_match_py being the matches of the start pattern at start_index and
\* of the end pattern after the prefix and the quotes
Py_string3_format(c, text, start_index, trigger, is_continuation, start_match, end_match_py) ==
  LET starting == ~is_continuation
      start_delim_len_incl_prefix ==
        IF starting THEN start_match.e - start_match.s ELSE 0
      prefix == IF starting
                THEN SubSeq(text, start_match.g[1][1] + 1,
                            start_match.g[1][2])
                ELSE <<>>
      prefix_len == start_match.g[1][2] - start_match.g[1][1]
      c1 == setFormatIf(starting /\ prefix_len > 0
                        /\ "string_special" \in Formats,
                        c, text, start_match.g[1][1], prefix_len,
                        "string_special", "delim")
      prefix_info ==
        [is_fstring |-> \E j \in DOMAIN prefix : prefix[j] \in {"f", "F"},
         is_raw |-> \E j \in DOMAIN prefix : prefix[j] \in {"r", "R"}]
      delim_len == start_match.g[2][2] - start_match.g[2][1]
      main_fmt_py == trigger.format_key \in Formats
      c2 == setFormatIf(starting /\ main_fmt_py /\ delim_len > 0, c1, text,
                        start_match.g[2][1], delim_len, trigger.format_key,
                        "delim")
      content_fmt_py == trigger.internal_format \in Formats
      next_state_py == trigger.state
      ended_on_line_py == IsMatch(end_match_py)
      content_start_py == start_index + start_delim_len_incl_prefix
      content_end_py == IF ended_on_line_py THEN end_match_py.s
                        ELSE Len(text)
      content_len_py == content_end_py - content_start_py
      c3 == setFormatIf(content_len_py > 0 /\ content_fmt_py, c2, text,
                        content_start_py, content_len_py,
                        trigger.internal_format, "content")
      \* c3a is the context after the content format
      Internal(c3a) ==
        IF content_len_py > 0
        THEN apply_rules_within_range(c3a, text, content_start_py,
                                      content_len_py, next_state_py,
                                      prefix_info)
        ELSE c3a
      end_delim_len_py == end_match_py.e - end_match_py.s
      c5 == setFormatIf(ended_on_line_py /\ end_delim_len_py > 0
                        /\ main_fmt_py,
                        Internal(c3), text, end_match_py.s, end_delim_len_py,
                        trigger.format_key, "delim")
  IN IF starting /\ ~IsMatch(start_match)
     THEN [c |-> setCurrentBlockState(c, STATE_DEFAULT), consumed |-> 0,
           ended |-> TRUE]
     ELSE [c |-> setCurrentBlockState(c5, IF ended_on_line_py
                                          THEN STATE_DEFAULT
                                          ELSE next_state_py),
           consumed |-> start_delim_len_incl_prefix + content_len_py
                        + (IF ended_on_line_py THEN end_delim_len_py ELSE 0),
           ended |-> ended_on_line_py]

\* search_offset_py, then end_pattern.search(text, search_offset_py)
Py_string3_from(c, text, start_index, trigger, is_continuation, start_match) ==
  Py_string3_format(c, text, start_index, trigger, is_continuation,
                    start_match,
                    ReSearch(trigger.end, text,
                             start_index
                             + (IF is_continuation THEN 0
                                ELSE start_match.e - start_match.s)))

Py_apply_multiline_format(c, text, start_index, trigger, is_continuation) ==
  IF trigger.key = "string3"
  THEN Py_string3_from(c, text, start_index, trigger, is_continuation,
                       ReMatch(trigger.start, text, start_index))
  ELSE Base_apply_multiline_format(c, text, start_index, trigger,
                                   is_continuation)

\* JavaScriptHighlighter.apply_multiline_format after its call of the base
\* implementation, whose result is r; content_start_offset is the offset
\* after the start delimiter and end_match the end pattern's match after it
Js_template_format(r, text, start_index, trigger, content_start_offset, end_match) ==
  LET total_consumed_end == start_index + r.consumed
      content_end_offset ==
        IF r.ended /\ IsMatch(end_match) /\ end_match.s >= content_start_offset
        THEN end_match.s ELSE total_consumed_end
      internal_len == Max(0, content_end_offset - content_start_offset)
  IN IF r.consumed > 0 /\ trigger.state = STATE_TEMPLATE_LITERAL
        /\ internal_len > 0
     THEN [r EXCEPT !.c = apply_rules_within_range(r.c, text,
                            content_start_offset, internal_len,
                            STATE_TEMPLATE_LITERAL, NoKwargs)]
     ELSE r

Js_template_from(r, text, start_index, trigger, content_start_offset) ==
  Js_template_format(r, text, start_index, trigger, content_start_offset,
                     ReSearch(trigger.end, text, content_start_offset))

\* the offset after the start delimiter, start_match being the match of the
\* start pattern at start_index
Js_content_start(start_index, is_continuation, start_match) ==
  IF is_continuation THEN start_index
  ELSE IF IsMatch(start_match) THEN start_match.e ELSE start_index

Js_apply_multiline_format(c, text, start_index, trigger, is_continuation) ==
  Js_template_from(
    Base_apply_multiline_format(c, text, start_index, trigger,
                                is_continuation),
    text, start_index, trigger,
    Js_content_start(start_index, is_continuation,
                     ReMatch(trigger.start, text, start_index)))

\* BashHighlighter.apply_multiline_format, start_match being
\* trigger['start'].search(text, start_index): the override stores a new end
\* pattern in the instance's trigger before it calls the base
\* implementation with that trigger.
Bash_heredoc_format(c, text, start_index, trigger, is_continuation, start_match) ==
  LET delimiter == SubSeq(text, start_match.g[2][1] + 1, start_match.g[2][2])
      c1 == IF trigger.key = "heredoc" /\ ~is_continuation
               /\ IsMatch(start_match)
            THEN [c EXCEPT !.self.heredoc = delimiter]
            ELSE c
  IN Base_apply_multiline_format(c1, text, start_index,
                                 TriggerByKey(c1.self, trigger.key),
                                 is_continuation)

Bash_apply_multiline_format(c, text, start_index, trigger, is_continuation) ==
  Bash_heredoc_format(c, text, start_index, trigger, is_continuation,
                      ReSearch(trigger.start, text, start_index))

\* self.apply_multiline_format(text, start_index, trigger, trigger_key,
\* is_continuation)
apply_multiline_format(c, text, start_index, trigger, is_continuation) ==
  CASE c.self.cls = PythonHighlighter ->
         Py_apply_multiline_format(c, text, start_index, trigger,
                                   is_continuation)
    [] c.self.cls = JavaScriptHighlighter ->
         Js_apply_multiline_format(c, text, start_index, trigger,
                                   is_continuation)
    [] c.self.cls = BashHighlighter ->
         Bash_apply_multiline_format(c, text, start_index, trigger,
                                     is_continuation)
    [] OTHER -> Base_apply_multiline_format(c, text, start_index, trigger,
                                            is_continuation)

(***************************************************************************)
(* Embedding: _get_sub_highlighter and highlight_segment                   *)
(***************************************************************************)
\* factory in self._sub_highlighters_cache
Cached(cache, factory) == \E e \in cache : e.factory = factory

\* lines 121-141 without the test of line 123: an instance is created and
\* stored at every lookup.
_create_sub_highlighter(c, factory) ==
  IF c.self.factory_raises THEN c
  ELSE [c EXCEPT !.self.cache =
          @ \cup {[factory |-> factory, id |-> Cardinality(@) + 1]}]

\* lines 121-141, the cache after the lookup: the instance is created on
\* first use and kept in the cache, unless its creation raises.
_get_sub_highlighter(c, factory) ==
  IF Cached(c.self.cache, factory) \/ c.self.factory_raises THEN c
  ELSE [c EXCEPT !.self.cache =
          @ \cup {[factory |-> factory, id |-> Cardinality(@) + 1]}]

\* lines 121-141, the value returned: the instance, or None when its
\* creation raised
sub_instance(c, factory) ==
  IF Cached(c.self.cache, factory) \/ ~c.self.factory_raises
  THEN NewInstance(factory) ELSE NoInstance

\* The content of `length` offsets from `start` is left without
\* sub-highlighter because _get_sub_highlighter returned None.
no_sub_highlighter(c, factory, start, length) ==
  [c EXCEPT !.segments = Append(@, [sub |-> NewInstance(factory),
                                    start |-> start, length |-> length,
                                    created |-> FALSE])]

\* lines 681-688
seg_processed_fmt_list(fmt_info) ==
  CASE fmt_info.kind = "str" -> <<[key |-> fmt_info.key, group |-> 0]>>
    [] fmt_info.kind = "tuple" ->
         <<[key |-> fmt_info.key, group |-> fmt_info.group]>>
    [] fmt_info.kind = "list" ->
         [j \in 1..Len(fmt_info.items) |->
            [key |-> fmt_info.items[j].key,
             group |-> IF fmt_info.items[j].kind = "tuple"
                       THEN fmt_info.items[j].group ELSE 0]]

\* lines 700-725; S is [c |-> the parent's context, applied |-> the offsets
\* of the segment whose segment_applied_range entry is True]
RECURSIVE SegNextFree(_, _, _, _)
SegNextFree(S, segment_len, p, group_end_seg) ==
  IF p < group_end_seg /\ (p >= segment_len \/ p \in S.applied)
  THEN SegNextFree(S, segment_len, p + 1, group_end_seg) ELSE p

RECURSIVE SegSegmentEnd(_, _, _, _)
SegSegmentEnd(S, segment_len, p, group_end_seg) ==
  IF p < group_end_seg /\ (p < segment_len /\ p \notin S.applied)
  THEN SegSegmentEnd(S, segment_len, p + 1, group_end_seg) ELSE p

RECURSIVE SegApplyToFree(_, _, _, _, _, _, _)
SegApplyToFree(S, text, segment_len, current_seg_pos, group_end_seg, format_key, block_start_offset) ==
  LET sub_segment_start_seg ==
        SegNextFree(S, segment_len, current_seg_pos, group_end_seg)
      sub_segment_end_seg ==
        SegSegmentEnd(S, segment_len, sub_segment_start_seg, group_end_seg)
      apply_abs_start == block_start_offset + sub_segment_start_seg
      apply_abs_len == sub_segment_end_seg - sub_segment_start_seg
  IN IF current_seg_pos >= group_end_seg
        \/ sub_segment_start_seg >= group_end_seg
     THEN S
     ELSE SegApplyToFree(
            IF apply_abs_len > 0
            THEN [c |-> setFormat(S.c, text, apply_abs_start, apply_abs_len,
                                  format_key, "sub"),
                  applied |-> S.applied
                     \cup {k \in sub_segment_start_seg..(sub_segment_end_seg - 1)
                             : k < segment_len}]
            ELSE S,
            text, segment_len, sub_segment_end_seg, group_end_seg, format_key,
            block_start_offset)

RECURSIVE SegApplyFmtList(_, _, _, _, _, _, _)
SegApplyFmtList(S, text, segment_len, match, fmts, k, block_start_offset) ==
  IF k > Len(fmts) THEN S
  ELSE LET span == GroupSpan(match, fmts[k].group)
           skip == \/ fmts[k].key \notin Formats
                   \/ span = IndexError
                   \/ span[1] = -1 \/ span[2] = -1 \/ span[2] <= span[1]
       IN SegApplyFmtList(
            IF skip THEN S
            ELSE SegApplyToFree(S, text, segment_len, span[1], span[2],
                                fmts[k].key, block_start_offset),
            text, segment_len, match, fmts, k + 1, block_start_offset)

\* lines 665-733: the loop over the sorted candidates of the segment.  A
\* candidate that is a construct start has no 'format_info': the KeyError
\* ends the call, and what was formatted before it stays.
RECURSIVE SegLoop(_, _, _, _, _, _, _)
SegLoop(S, text, segment_len, seg_matches, k, seg_last_applied_end, block_start_offset) ==
  IF k > Len(seg_matches) THEN S.c
  ELSE
    LET match_info == seg_matches[k]
        match == match_info.match
        seg_match_start == match.s
        seg_match_end == match.e
        is_seg_already_covered ==
          \A j \in seg_match_start..(Min(seg_match_end, segment_len) - 1) :
             j \in S.applied
        S1 == SegApplyFmtList(S, text, segment_len, match,
                              seg_processed_fmt_list(match_info.format_info),
                              1, block_start_offset)
        applied_in_match ==
          {j \in seg_match_start..(seg_match_end - 1) :
             j < segment_len /\ j \in S1.applied}
        max_applied_in_match ==
          IF applied_in_match = {} THEN -1 ELSE SetMax(applied_in_match)
    IN IF seg_match_start < seg_last_applied_end
          \/ seg_match_start >= seg_match_end
          \/ is_seg_already_covered
       THEN SegLoop(S, text, segment_len, seg_matches, k + 1,
                    seg_last_applied_end, block_start_offset)
       ELSE IF "format_info" \notin DOMAIN match_info
       THEN S.c
       ELSE SegLoop(S1, text, segment_len, seg_matches, k + 1,
                    IF max_applied_in_match >= seg_match_start
                    THEN Max(seg_last_applied_end, max_applied_in_match + 1)
                    ELSE seg_last_applied_end,
                    block_start_offset)

\* matches_found.sort(key=...) of line 661
SegSorted(matches_found) == SortMatches(matches_found, Len(matches_found))

\* sub.highlight_segment(parent_highlighter, text_segment,
\* block_start_offset), the parent's context being c and its line `text`
highlight_segment(sub, c, text, text_segment, block_start_offset) ==
  SegLoop([c |-> c, applied |-> {}], text, Len(text_segment),
          SegSorted(_find_matches(sub, text_segment, STATE_DEFAULT, 0)),
          1, 0, block_start_offset)

\* The parameters of highlight_segment after self.
highlight_segment_params ==
  <<"parent_highlighter", "text_segment", "block_start_offset">>

\* The call of highlight_segment without its try: the exception leaves
\* highlightBlock, and the block keeps no format and no new state.
raise_highlight_segment(c, sub, text, start, length) ==
  [c EXCEPT !.fmt = <<>>, !.writes = <<>>,
            !.segments = Append(@, [sub |-> sub, start |-> start,
                                    length |-> length, created |-> TRUE])]

\* try: sub_highlighter.highlight_segment(self, text, start, length)
\* except Exception: ...  The call gives four arguments to a method of
\* three parameters: Python raises TypeError before the method runs, and the
\* except clause at the call swallows it.
try_highlight_segment(c, sub, text, start, length) ==
  LET arguments == <<"self", "text", start, length>>
      c1 == [c EXCEPT !.segments = Append(@, [sub |-> sub, start |-> start,
                                              length |-> length,
                                              created |-> TRUE])]
  IN IF Len(arguments) = Len(highlight_segment_params)
     THEN highlight_segment(sub, c1, text, Slice(text, start, length), start)
     ELSE c1


(***************************************************************************)
(* highlightBlock                                                          *)
(***************************************************************************)
NoTrigger == [key |-> None, state |-> STATE_DEFAULT]

\* The lookup of lines 159-167 that finds no construct for any state.
NoTriggerFor(triggers, current_state, k) == NoTrigger

\* lines 159-167: the first trigger of the table whose state is the
\* incoming state
RECURSIVE FindTrigger(_, _, _)
FindTrigger(triggers, current_state, k) ==
  IF k > Len(triggers) THEN NoTrigger
  ELSE IF triggers[k].state = current_state THEN triggers[k]
  ELSE FindTrigger(triggers, current_state, k + 1)

\* The handling of a construct's end that takes up the whole line again in
\* Default state, from offset 0.
ContinuationFromStart(c, text, current_trigger, current_state, end_match) ==
  [c |-> setCurrentBlockState(c, STATE_DEFAULT), start_offset |-> 0,
   current_state |-> STATE_DEFAULT, returned |-> FALSE]

\* lines 169-235: the line begins inside the construct of current_trigger,
\* c being the context after the sub-highlighter lookup and end_match the
\* end pattern's match on the line.  The result is [c, start_offset,
\* current_state, returned].
ContinuationTo(c, text, current_trigger, current_state, end_match) ==
  LET sub_highlighter_factory == current_trigger.sub_highlighter
      sub_highlighter == IF sub_highlighter_factory = None THEN NoInstance
                         ELSE sub_instance(c, sub_highlighter_factory)
      has_sub == sub_highlighter # NoInstance
      \* the context of the branches that run without sub-highlighter
      Without(content_len) ==
        IF sub_highlighter_factory # None /\ content_len > 0
        THEN no_sub_highlighter(c, sub_highlighter_factory, 0, content_len)
        ELSE c
      has_internal == current_trigger.internal_format # None
                      /\ current_trigger.internal_format \in Formats
  IN IF IsMatch(end_match)
     THEN
       LET content_len == end_match.s
           end_delimiter_len == end_match.e - end_match.s
           cA == IF has_sub
                 THEN MarkApplied(
                        IF content_len > 0
                        THEN try_highlight_segment(c, sub_highlighter, text,
                                                   0, content_len)
                        ELSE c,
                        text, 0, content_len)
                 ELSE IF has_internal
                 THEN MarkApplied(
                        IF content_len > 0
                        THEN setFormat(Without(content_len), text, 0,
                                       content_len,
                                       current_trigger.internal_format,
                                       "content")
                        ELSE c,
                        text, 0, content_len)
                 ELSE Without(content_len)
           cC == apply_rules_within_range(cA, text, 0, content_len,
                                          current_state, NoKwargs)
           fmt_key == current_trigger.format_key
           cD == MarkApplied(
                   setFormatIf(fmt_key # None /\ fmt_key \in Formats
                               /\ end_delimiter_len > 0,
                               cC, text, end_match.s, end_delimiter_len,
                               fmt_key, "delim"),
                   text, end_match.s, end_match.e)
       IN [c |-> setCurrentBlockState(cD, STATE_DEFAULT),
           start_offset |-> end_match.e, current_state |-> STATE_DEFAULT,
           returned |-> FALSE]
     ELSE
       LET content_len == Len(text)
           state_to_keep == current_trigger.state
           cA == IF has_sub
                 THEN (IF content_len > 0
                       THEN try_highlight_segment(c, sub_highlighter, text, 0,
                                                  content_len)
                       ELSE c)
                 ELSE IF has_internal /\ content_len > 0
                 THEN setFormat(Without(content_len), text, 0, content_len,
                                current_trigger.internal_format, "content")
                 ELSE Without(content_len)
           cC == apply_rules_within_range(cA, text, 0, content_len,
                                          current_state, NoKwargs)
       IN [c |-> MarkApplied(setCurrentBlockState(cC, state_to_keep), text, 0,
                             Len(text)),
           start_offset |-> 0, current_state |-> current_state,
           returned |-> TRUE]

\* lines 169-177: the sub-highlighter lookup and the search of the end
\* pattern from the start of the line
Continuation(c0, text, current_trigger, current_state) ==
  ContinuationTo(IF current_trigger.sub_highlighter # None
                 THEN _get_sub_highlighter(c0,
                                           current_trigger.sub_highlighter)
                 ELSE c0,
                 text, current_trigger, current_state,
                 ReSearch(current_trigger.end, text, 0))

\* start_delim_len of lines 322-324
StartDelimLen(start_match_re) ==
  IF IsMatch(start_match_re) THEN start_match_re.e - start_match_re.s ELSE 0

\* The handling of a construct start that goes on to the next candidate
\* whether or not the construct ended on the line.
MultiStartGoesOn(L, match_info, text, r, start_delim_len, end_match_inline) ==
  [L EXCEPT !.c = r.c,
            !.last_applied_end =
               Max(@, Min(match_info.match.s + r.consumed, Len(text)))]

\* lines 311-364, r being the result of apply_multiline_format,
\* start_delim_len the length of the start delimiter and end_match_inline
\* the end pattern's match after it.  L is the state of the loop over the
\* candidates: [c, last_applied_end, did_set_state_in_loop, brk].
MultiStartInline(L, match_info, text, r, start_delim_len, end_match_inline) ==
  LET match_start == match_info.match.s
      trigger_key == match_info.trigger_key
      ended_on_line == r.ended
      actual_end == Min(match_start + r.consumed, Len(text))
      c1 == MarkApplied(r.c, text, match_start, actual_end)
      last_applied_end == Max(L.last_applied_end, actual_end)
      \* the trigger as the table holds it after apply_multiline_format
      trigger1 == TriggerByKey(r.c.self, trigger_key)
      has_sub == trigger1.sub_highlighter # None
      content_start_here == match_start + start_delim_len
      content_len_here == actual_end - content_start_here
      true_internal_len ==
        IF ended_on_line /\ IsMatch(end_match_inline)
           /\ end_match_inline.s >= content_start_here
        THEN end_match_inline.s - content_start_here
        ELSE content_len_here
      sub_hl == sub_instance(c1, trigger1.sub_highlighter)
      c2 == IF has_sub /\ content_len_here > 0
            THEN IF sub_hl # NoInstance
                 THEN try_highlight_segment(
                        _get_sub_highlighter(c1, trigger1.sub_highlighter),
                        sub_hl, text, content_start_here, content_len_here)
                 ELSE no_sub_highlighter(c1, trigger1.sub_highlighter,
                                         content_start_here, content_len_here)
            ELSE IF ~has_sub /\ content_len_here > 0 /\ true_internal_len > 0
            THEN apply_rules_within_range(c1, text, content_start_here,
                                          true_internal_len, trigger1.state,
                                          NoKwargs)
            ELSE c1
  IN IF ~ended_on_line
     THEN [c |-> [MarkApplied(c2, text, actual_end, Len(text))
                    EXCEPT !.opened = [key |-> trigger_key, s |-> match_start,
                                       e |-> content_start_here]],
           last_applied_end |-> Len(text),
           did_set_state_in_loop |-> TRUE, brk |-> TRUE]
     ELSE [L EXCEPT !.c = c2, !.last_applied_end = last_applied_end]

\* lines 322-329: end_pattern.search(text, content_start_here)
MultiStartContent(L, match_info, text, r, start_delim_len) ==
  MultiStartInline(L, match_info, text, r, start_delim_len,
                   ReSearch(TriggerByKey(r.c.self, match_info.trigger_key).end,
                            text, match_info.match.s + start_delim_len))

\* lines 320-324: trigger['start'].match(text, match_start)
MultiStartApplied(L, match_info, text, r) ==
  MultiStartContent(L, match_info, text, r,
                    StartDelimLen(
                      ReMatch(TriggerByKey(r.c.self,
                                           match_info.trigger_key).start,
                              text, match_info.match.s)))

\* lines 304-364: a construct start is applied
ApplyMultiStart(L, match_info, text) ==
  MultiStartApplied(L, match_info, text,
                    apply_multiline_format(
                      L.c, text, match_info.match.s,
                      TriggerByKey(L.c.self, match_info.trigger_key), FALSE))

\* max_idx_in_match of lines 289-293: the greatest element of S, or d
SetMaxOr(S, d) == IF S = {} THEN d ELSE SetMax(S)

\* lines 286-301, r being the result of _apply_single_line_match
SingleApplied(L, match_info, text, r) ==
  LET match_start == match_info.match.s
      applied_before == {k \in 0..(match_start - 1) :
                           k < Len(text) /\ k \in r.c.applied}
  IN [L EXCEPT !.c = r.c,
               !.last_applied_end =
                  IF r.ok /\ SetMaxOr(applied_before, -1) >= match_start
                  THEN Max(@, SetMaxOr(applied_before, -1) + 1) ELSE @]

\* lines 283-301: a single-line candidate is applied
ApplySingle(L, match_info, text) ==
  SingleApplied(L, match_info, text,
                _apply_single_line_match(L.c, match_info, text))

\* lines 267-281: the candidate is passed over
SkipCandidate(L, match_info, text, start_offset) ==
  LET match_start == match_info.match.s
      match_end == match_info.match.e
      is_already_covered ==
        \A j \in match_start..(Min(match_end, Len(text)) - 1) :
           j \in L.c.applied
  IN \/ match_start < start_offset
     \/ match_start < L.last_applied_end
     \/ match_start >= match_end
     \/ is_already_covered
     \/ match_start >= Min(match_end, Len(text))

\* lines 263-364: the body of the loop for one candidate
ApplyCandidate(L, match_info, text, start_offset) ==
  IF SkipCandidate(L, match_info, text, start_offset) THEN L
  ELSE IF match_info.type = "single"
  THEN ApplySingle(L, match_info, text)
  ELSE ApplyMultiStart(L, match_info, text)

\* lines 262-366: the loop over the sorted candidates
RECURSIVE ApplyLoop(_, _, _, _, _)
ApplyLoop(L, matches, k, text, start_offset) ==
  IF k > Len(matches) \/ L.brk THEN L
  ELSE ApplyLoop(ApplyCandidate(L, matches[k], text, start_offset),
                 matches, k + 1, text, start_offset)

\* matches_found.sort(key=...)
Sorted(matches_found) == SortMatches(matches_found, Len(matches_found))

\* lines 238-366, `first` being the outcome of the handling of the incoming
\* state: [c, start_offset, current_state, returned]
HighlightFrom(first, text) ==
  IF first.returned THEN first.c
  ELSE ApplyLoop([c |-> first.c, last_applied_end |-> first.start_offset,
                  did_set_state_in_loop |-> FALSE, brk |-> FALSE],
                 IF first.start_offset < Len(text)
                 THEN Sorted(_find_matches(first.c.self, text,
                                           first.current_state,
                                           first.start_offset))
                 ELSE <<>>,
                 1, text, first.start_offset).c

\* lines 169-242: the handling of the incoming state
FirstOf(c0, text, current_trigger, current_state0) ==
  IF current_trigger.key # None
  THEN Continuation(c0, text, current_trigger, current_state0)
  ELSE IF current_state0 # STATE_DEFAULT
  THEN [c |-> setCurrentBlockState(c0, STATE_DEFAULT),
        start_offset |-> 0, current_state |-> STATE_DEFAULT,
        returned |-> FALSE]
  ELSE [c |-> c0, start_offset |-> 0,
        current_state |-> current_state0, returned |-> FALSE]

\* lines 154-157
IncomingState(previous_state) ==
  IF previous_state = -1 THEN STATE_DEFAULT ELSE previous_state

\* lines 151-366: highlightBlock up to its final state handling, for the
\* instance `self`, the block's text and previousBlockState()
HighlightBody(self, text, previous_state) ==
  HighlightFrom(FirstOf(NewContext(self), text,
                        FindTrigger(multiline_triggers(self),
                                    IncomingState(previous_state), 1),
                        IncomingState(previous_state)),
                text)

\* The final state handling with its test on the state the block held
\* before the call: a block that held a state is set to Default.
FinalStateOfStored(c, stored) ==
  IF stored = -1 THEN c ELSE setCurrentBlockState(c, STATE_DEFAULT)

\* lines 368-374
FinalState(c, stored) ==
  IF currentBlockState(c, stored) = -1
  THEN setCurrentBlockState(c, STATE_DEFAULT)
  ELSE c

(***************************************************************************)
(* The calls an editing session can make.  The part of highlightBlock      *)
(* before its final state handling does not read the state the block       *)
(* holds, so it is worked out once for every instance, line and incoming   *)
(* state of a session.                                                     *)
(***************************************************************************)
\* get_highlighter_for_file: the classes that the extensions of a kind of
\* file select
Classes(f) ==
  CASE f = "js" -> {JavaScriptHighlighter}
    [] f = "py" -> {PythonHighlighter}
    [] f = "web" -> {HtmlHighlighter, JavaScriptHighlighter, CssHighlighter}
    [] f = "sh" -> {BashHighlighter}
    [] f = "xml" -> {XmlHighlighter}
    [] f = "seg" -> {JavaScriptHighlighter}
    [] f = "pre" -> {PythonHighlighter}
    [] f = "tpl" -> {JavaScriptHighlighter, PythonHighlighter}
    [] f = "quo" -> {PythonHighlighter}
    [] f = "str" -> {PythonHighlighter, JavaScriptHighlighter}

\* The values userState() takes in these sessions.
BlockStates ==
  {NoState, STATE_DEFAULT, STATE_MULTILINE_COMMENT, STATE_TRIPLE_QUOTE_STRING,
   STATE_DOCSTRING, STATE_TEMPLATE_LITERAL, STATE_EMBEDDED_JS_IN_HTML,
   STATE_EMBEDDED_CSS_IN_HTML, STATE_XML_CDATA}

\* The delimiters BashHighlighter.apply_multiline_format can put in the end
\* pattern: those of the heredoc starts of the lines, <<>> before the first.
HeredocStart(t) ==
  ReSearch(TriggerByKey(NewInstance(BashHighlighter), "heredoc").start, t, 0)
Delimiters ==
  {<<>>} \cup {SubSeq(t, HeredocStart(t).g[2][1] + 1, HeredocStart(t).g[2][2])
                 : t \in {u \in Corpus("sh") : IsMatch(HeredocStart(u))}}

\* Whether factory(None, self.colors) can raise for an instance of cls:
\* only HtmlHighlighter's table names factories.
FactoryOutcomes(cls) == IF cls = HtmlHighlighter THEN BOOLEAN ELSE {FALSE}

\* The values _sub_highlighters_cache takes: the factories of
\* HtmlHighlighter's table in the orders of their first use.
Caches ==
  {{}}
  \cup {{[factory |-> f, id |-> 1]} :
          f \in {JavaScriptHighlighter, CssHighlighter}}
  \cup {{[factory |-> p[1], id |-> 1], [factory |-> p[2], id |-> 2]} :
          p \in {<<JavaScriptHighlighter, CssHighlighter>>,
                 <<CssHighlighter, JavaScriptHighlighter>>}}

\* The values an instance of a class takes.
InstancesOf(cls) ==
  {[cls |-> cls, heredoc |-> h, cache |-> k, factory_raises |-> r] :
     h \in (IF cls = BashHighlighter THEN Delimiters ELSE {<<>>}),
     k \in (IF cls = HtmlHighlighter THEN Caches ELSE {{}}),
     r \in FactoryOutcomes(cls)}

CallsOf(f) ==
  UNION {InstancesOf(cls) \X (Corpus(f) \cup {<<>>}) \X BlockStates :
           cls \in Classes(f)}
\* The kinds of file of all the sessions examined.
AllFamilies == Families \cup {"xml", "str", "seg", "pre", "quo", "tpl"}

Calls == UNION {CallsOf(f) : f \in AllFamilies}

HighlightBodyOf ==
  [k \in {call : call \in Calls} |-> HighlightBody(k[1], k[2], k[3])]

\* highlightBlock(text) on a block that holds the state `stored`
highlightBlock(self, text, previous_state, stored) ==
  FinalState(HighlightBodyOf[<<self, text, previous_state>>], stored)

(***************************************************************************)
(* The editor: a document of at most MaxLines text blocks, each with its   *)
(* userState and its formats, and the highlighter MainWindow has attached  *)
(* to it.  QSyntaxHighlighter calls highlightBlock for the block that      *)
(* changed and goes on to the next block while the state of the block it   *)
(* has just highlighted differs from the state the block held before.      *)
(***************************************************************************)
MaxLines == 2

VARIABLES
  family,       \* the kind of file edited: the lines typed come from Corpus
  highlighter,  \* MainWindow.highlighter: an instance, or NoHighlighter
  doc,          \* the text of each block
  userState,    \* QTextBlock.userState() of each block
  formats,      \* the spans of the last highlightBlock call on each block
  pending,      \* the block the highlighter is to highlight next, or 0
  upto,         \* the last block the running pass must highlight
  last,         \* the most recent highlightBlock call of the highlighter
  prior,        \* the call before it, if it was on the block before
  tie,          \* two construct starts that tie in _find_matches (SpecPriority)
  trial         \* one application of a function to chosen arguments: the
                \* specifications that examine a single function use it

vars == <<family, highlighter, doc, userState, formats, pending, upto, last,
          prior, tie, trial>>

\* the variables of the editor
editor == <<family, highlighter, doc, userState, formats, pending, upto, last,
            prior>>

NoHighlighter == NoInstance

\* A highlightBlock call: the block, its text, previousBlockState(), the
\* state the block held, the instance before the call, and what the call
\* left: the spans, the block's state, the construct it opened, the
\* segments it handed to a sub-highlighter and the instance.
NoCall ==
  [blk |-> 0, text |-> <<>>, prev |-> NoState, stored |-> NoState,
   before |-> NoHighlighter, fmt |-> <<>>, state |-> NoState,
   opened |-> NoOpen, segments |-> <<>>, after |-> NoHighlighter]

\* tie outside SpecPriority
NoTie == [base_idx |-> 0, at |-> 0, first |-> 0, second |-> 0, done |-> FALSE,
          order |-> <<>>]

\* trial before any application, and in the specifications of the editor
NoTrial == [op |-> "none"]

EditorInit ==
  /\ highlighter = NoHighlighter
  /\ doc = << <<>> >>
  /\ userState = <<NoState>>
  /\ formats = << <<>> >>
  /\ pending = 0
  /\ upto = 0
  /\ last = NoCall
  /\ prior = NoCall

Init ==
  /\ family \in Families
  /\ EditorInit
  /\ tie = NoTie
  /\ trial = NoTrial

\* The text of block i is replaced by t (typing, pasting, retyping the same
\* text); the highlighter, if there is one, is told to reformat the block.
EditLine(i, t) ==
  /\ pending = 0
  /\ doc' = [doc EXCEPT ![i] = t]
  /\ IF highlighter # NoHighlighter
     THEN pending' = i /\ upto' = i
     ELSE UNCHANGED <<pending, upto>>
  /\ UNCHANGED <<family, highlighter, userState, formats, last, prior, tie,
                 trial>>

\* Return at the end of the document: a new empty block, which has no state
\* yet; the block before it and the new block are reformatted.
NewLine ==
  /\ pending = 0
  /\ Len(doc) < MaxLines
  /\ doc' = Append(doc, <<>>)
  /\ userState' = Append(userState, NoState)
  /\ formats' = Append(formats, <<>>)
  /\ IF highlighter # NoHighlighter
     THEN pending' = Len(doc) /\ upto' = Len(doc) + 1
     ELSE UNCHANGED <<pending, upto>>
  /\ UNCHANGED <<family, highlighter, last, prior, tie, trial>>

\* MainWindow.apply_syntax_highlighting after a file is saved or loaded
\* under a name whose extension selects cls: the old highlighter is
\* detached, which clears the formats and leaves the blocks' states; a new
\* instance is attached and rehighlight() runs over the whole document.
\* `raises` tells whether the factories of the new instance's table raise.
ApplySyntaxHighlighting(cls, raises) ==
  /\ pending = 0
  /\ formats' = IF highlighter # NoHighlighter
                THEN [i \in DOMAIN doc |-> <<>>] ELSE formats
  /\ highlighter' = [NewInstance(cls) EXCEPT !.factory_raises = raises]
  /\ pending' = 1
  /\ upto' = Len(doc)
  /\ last' = NoCall
  /\ prior' = NoCall
  /\ UNCHANGED <<family, doc, userState, tie, trial>>

\* What QSyntaxHighlighterPrivate::reformatBlock does with the outcome c of
\* highlightBlock on block blk, then the choice of the next block.
Reformatted(blk, previous_state, c) ==
  LET stored == userState[blk]
      state == currentBlockState(c, stored)
  IN /\ userState' = [userState EXCEPT ![blk] = state]
     /\ formats' = [formats EXCEPT ![blk] = c.fmt]
     /\ highlighter' = c.self
     /\ last' = [blk |-> blk, text |-> doc[blk], prev |-> previous_state,
                 stored |-> stored, before |-> highlighter,
                 fmt |-> c.fmt, state |-> state, opened |-> c.opened,
                 segments |-> c.segments, after |-> c.self]
     /\ prior' = IF last.blk = blk - 1 THEN last ELSE NoCall
     /\ IF blk < Len(doc) /\ (blk < upto \/ state # stored)
        THEN pending' = blk + 1 /\ upto' = upto
        ELSE pending' = 0 /\ upto' = 0

\* previousBlockState() of block blk
previousBlockState(blk) == IF blk = 1 THEN NoState ELSE userState[blk - 1]

\* QSyntaxHighlighterPrivate::reformatBlock on block `pending`
HighlightBlock ==
  /\ pending # 0
  /\ Reformatted(pending, previousBlockState(pending),
                 highlightBlock(highlighter, doc[pending],
                                previousBlockState(pending),
                                userState[pending]))
  /\ UNCHANGED <<family, doc, tie, trial>>

Next ==
  \/ \E i \in DOMAIN doc : \E t \in Corpus(family) \cup {<<>>} : EditLine(i, t)
  \/ NewLine
  \/ \E cls \in Classes(family) : \E raises \in FactoryOutcomes(cls) :
       ApplySyntaxHighlighting(cls, raises)
  \/ HighlightBlock

Spec == Init /\ [][Next]_vars


(***************************************************************************)
(* The order of two construct starts that match at the same offset with    *)
(* the same length: _find_matches gives each candidate its effective rule  *)
(* index and highlightBlock sorts the candidates.  The table has base_idx  *)
(* single-line rules; the two constructs are at key_index `at` and at + 1  *)
(* of multiline_triggers, with the declared priorities first and second.   *)
(***************************************************************************)
\* The largest number of single-line rules of a table.
MaxRules == 21
\* The largest key_index of the first of the two constructs.
MaxPosition == 1
\* The priorities the tables of the source declare.
Priorities == {0, 5, 10, 15, 20}

TieText == <<"\"", "\"", "\"">>

\* A construct whose start pattern matches the whole of TieText.
TieTrigger(key, priority) ==
  [key |-> key,
   start |-> Str(TieText),
   end |-> Str(TieText),
   state |-> STATE_TRIPLE_QUOTE_STRING,
   format_key |-> "string_special",
   internal_format |-> "string",
   sub_highlighter |-> None,
   priority |-> priority]

\* A construct that comes earlier in the table and has no match in TieText.
OtherTrigger ==
  [key |-> "comment",
   start |-> Str(<<"/", "*">>),
   end |-> Str(<<"*", "/">>),
   state |-> STATE_MULTILINE_COMMENT,
   format_key |-> "comment",
   internal_format |-> "comment",
   sub_highlighter |-> None,
   priority |-> 0]

TieTable(at, first, second) ==
  [k \in 1..at |-> OtherTrigger]
  \o <<TieTrigger("first", first), TieTrigger("second", second)>>

PriorityInit ==
  /\ family = "py"
  /\ EditorInit
  /\ tie \in {[base_idx |-> b, at |-> a, first |-> p, second |-> q,
               done |-> FALSE, order |-> <<>>] :
                b \in 0..MaxRules, a \in 0..MaxPosition,
                p \in Priorities, q \in Priorities}
  /\ trial = NoTrial

\* lines 418-431 of _find_matches and the sort of lines 252-254: order is
\* the trigger keys of the candidates in the order the loop processes them.
FindMatches ==
  /\ ~tie.done
  /\ LET found == TriggerMatches(TieTable(tie.at, tie.first, tie.second),
                                 tie.base_idx, 1, TieText, 0)
         matches == SortMatches(found, Len(found))
     IN tie' = [tie EXCEPT !.done = TRUE,
                           !.order = [k \in 1..Len(matches) |->
                                        matches[k].trigger_key]]
  /\ UNCHANGED <<editor, trial>>

PriorityNext == FindMatches

SpecPriority == PriorityInit /\ [][PriorityNext]_vars


(***************************************************************************)
(* Properties of highlightBlock, stated about the most recent call (last)  *)
(* and the call before it (prior).                                         *)
(***************************************************************************)
\* The writers of base-category spans.
BaseWriters == {"rule", "delim", "content"}

\* fmt has a span of the key and the writer that covers offset o
Covers(fmt, o, key, by) ==
  \E j \in DOMAIN fmt :
     /\ fmt[j].k = key /\ fmt[j].by = by
     /\ fmt[j].s <= o /\ o < fmt[j].s + fmt[j].n

\* The constructs of the table of `self` whose state is `state`.
ConstructsOf(self, state) ==
  {multiline_triggers(self)[j] : j \in
     {i \in DOMAIN multiline_triggers(self) :
        multiline_triggers(self)[i].state = state}}

\* The call began inside a construct whose end it found on the line.
EndedMidLine ==
  \E k \in ConstructsOf(last.before, last.prev) :
     IsMatch(ReSearch(k.end, last.text, 0))

\* C1: the state a highlightBlock call leaves on its block is Default or
\* the state of a construct of the multiline_triggers table of the
\* highlighter that made the call, whatever states the blocks held.
WellFormedState ==
  last.blk # 0 =>
    last.state \in {STATE_DEFAULT} \cup TriggerStates(last.after)

\* C2: a call that processes its line in Default state (incoming state 0 or
\* -1, or the construct it began in ended on the line) and applies no
\* construct start that continues past the line leaves the state Default,
\* whatever state the block held from an earlier pass.
DefaultStaysDefault ==
  (/\ last.blk # 0
   /\ last.prev \in {NoState, STATE_DEFAULT} \/ EndedMidLine
   /\ last.opened = NoOpen)
  => last.state = STATE_DEFAULT

\* C3: no two spans that one call writes as single-line rule, construct
\* delimiter or construct content share an offset of the line.
NonOverlap ==
  \A i, j \in DOMAIN last.fmt :
     (/\ i < j
      /\ last.fmt[i].by \in BaseWriters
      /\ last.fmt[j].by \in BaseWriters)
     => \/ last.fmt[i].s + last.fmt[i].n <= last.fmt[j].s
        \/ last.fmt[j].s + last.fmt[j].n <= last.fmt[i].s

\* C4: the spans and the state of a call are those a highlighter of the
\* same class that has made no call before gives for the same line, the
\* same incoming state and the same block.
HistoryIndependence ==
  last.blk # 0 =>
    LET c == highlightBlock([NewInstance(last.before.cls) EXCEPT
                               !.factory_raises = last.before.factory_raises],
                            last.text, last.prev, last.stored)
    IN /\ c.fmt = last.fmt
       /\ currentBlockState(c, last.stored) = last.state

\* C5: a second highlightBlock call on the same block, with the same text
\* and the same incoming state, gives the spans and the state of the first.
Idempotence ==
  last.blk # 0 =>
    LET c == highlightBlock(last.after, last.text, last.prev, last.state)
    IN /\ c.fmt = last.fmt
       /\ currentBlockState(c, last.state) = last.state

\* A second call on a block whose text and incoming state are those of the
\* call before it on that block: it finds the state the first call left.
IdempotenceWitness ==
  /\ last.blk # 0
  /\ last.stored = last.state
  /\ last.state # STATE_DEFAULT
  /\ last.fmt # <<>>
  /\ formats[last.blk] = last.fmt

\* The call on line A (prior) applied the start of a construct k with a
\* content category and did not find its end, and the next call (last) is
\* on the following line B, which has a match of k's end pattern.
RoundTripCase ==
  /\ prior.blk # 0
  /\ last.blk = prior.blk + 1
  /\ prior.opened # NoOpen
  /\ TriggerByKey(prior.after, prior.opened.key).internal_format # None
  /\ IsMatch(ReSearch(TriggerByKey(last.before, prior.opened.key).end,
                      last.text, 0))

\* What A and B get in RoundTripCase, but for the state after B.
RoundTripMarks ==
  LET k == TriggerByKey(last.before, prior.opened.key)
      end_match == ReSearch(k.end, last.text, 0)
  IN /\ prior.state = k.state
     /\ last.prev = k.state
     /\ \A o \in prior.opened.s..(prior.opened.e - 1) :
           Covers(prior.fmt, o, k.format_key, "delim")
     /\ \A o \in prior.opened.e..(Len(prior.text) - 1) :
           Covers(prior.fmt, o, k.internal_format, "content")
     /\ \A o \in 0..(end_match.s - 1) :
           Covers(last.fmt, o, k.internal_format, "content")
     /\ \A o \in end_match.s..(end_match.e - 1) :
           Covers(last.fmt, o, k.format_key, "delim")

\* C6 (as stated): highlighting A and then B leaves state k after A, marks
\* the content of both lines with k's content category and both delimiters
\* with k's delimiter category, and leaves Default after B.
RoundTripDefault ==
  RoundTripCase => RoundTripMarks /\ last.state = STATE_DEFAULT

\* C6 (amended): as above, but the state after B is Default unless the call
\* on B applied, after the end delimiter, a construct start that continues
\* past the line; the state is then the state of that construct.
RoundTrip ==
  RoundTripCase =>
    /\ RoundTripMarks
    /\ IF last.opened = NoOpen THEN last.state = STATE_DEFAULT
       ELSE last.state = TriggerByKey(last.after, last.opened.key).state

\* B closes the construct that A opened and opens another that continues.
RoundTripWitness ==
  /\ RoundTripCase
  /\ RoundTripMarks
  /\ last.opened # NoOpen
  /\ last.state # STATE_DEFAULT

\* C7: a call whose incoming state is the state of a construct k of the
\* table leaves the state k when the line has no match of k's end pattern;
\* when the line has one, it leaves Default unless a construct start after
\* the end delimiter continues past the line.
Unterminated ==
  last.blk # 0 =>
    \A k \in ConstructsOf(last.before, last.prev) :
       IF IsMatch(ReSearch(k.end, last.text, 0))
       THEN IF last.opened = NoOpen THEN last.state = STATE_DEFAULT
            ELSE last.state = TriggerByKey(last.after, last.opened.key).state
       ELSE last.state = k.state /\ last.opened = NoOpen

\* The second line of a document is inside the construct the first line
\* opened and has no match of its end pattern.
UnterminatedWitness ==
  /\ last.blk = 2
  /\ last.text # <<>>
  /\ ConstructsOf(last.before, last.prev) # {}
  /\ \A k \in ConstructsOf(last.before, last.prev) :
        ~IsMatch(ReSearch(k.end, last.text, 0))
  /\ last.state = last.prev

\* The spans of fmt that a sub-highlighter wrote.
RECURSIVE SubSpans(_)
SubSpans(fmt) ==
  IF fmt = <<>> THEN <<>>
  ELSE (IF Head(fmt).by = "sub" THEN <<Head(fmt)>> ELSE <<>>)
       \o SubSpans(Tail(fmt))

\* The construct of the table of the call's highlighter whose embedded
\* language is that of the sub-highlighter `sub`.
EmbeddingConstruct(sub) ==
  CHOOSE k \in {multiline_triggers(last.before)[j] :
                  j \in DOMAIN multiline_triggers(last.before)} :
     k.sub_highlighter = sub.cls

\* The length of the content that begins at offset start of the line: up
\* to the construct's end delimiter, or to the end of the line.
ContentLength(sub, start) ==
  LET end_match == ReSearch(EmbeddingConstruct(sub).end, last.text, start)
  IN IF IsMatch(end_match) THEN end_match.s - start
     ELSE Len(last.text) - start

\* The spans highlight_segment writes for the content that begins where
\* each segment of the call begins, one segment after the other.
RECURSIVE SegmentSpans(_, _)
SegmentSpans(segments, k) ==
  IF k > Len(segments) THEN <<>>
  ELSE highlight_segment(segments[k].sub, NewContext(last.before), last.text,
                         Slice(last.text, segments[k].start,
                               ContentLength(segments[k].sub,
                                             segments[k].start)),
                         segments[k].start).fmt
       \o SegmentSpans(segments, k + 1)

\* C8: the content that a construct with a sub-highlighter covers on a line
\* gets exactly the spans of the sub-highlighter's Default-state matching of
\* that content, shifted by the offset where the content starts, and the
\* delimiters on the line get the construct's delimiter category.
Embedding ==
  last.blk # 0 =>
    /\ SubSpans(last.fmt) = SegmentSpans(last.segments, 1)
    /\ \A j \in DOMAIN last.segments :
          LET sg == last.segments[j]
              k == EmbeddingConstruct(sg.sub)
              content_end == sg.start + ContentLength(sg.sub, sg.start)
          IN /\ sg.start > 0 =>
                  Covers(last.fmt, sg.start - 1, k.format_key, "delim")
             /\ content_end < Len(last.text) =>
                  Covers(last.fmt, content_end, k.format_key, "delim")

StringRule(self) ==
  IF self.cls = PythonHighlighter THEN Py_RULE_DOUBLE_QUOTE
  ELSE Js_RULE_DOUBLE_QUOTE
EscapeRule(self) ==
  IF self.cls = PythonHighlighter THEN Py_RULE_STR_ESCAPE_COMP
  ELSE Js_RULE_STR_ESCAPE_COMP

\* The line of the call is one double-quoted string literal, highlighted in
\* Default state by a class that has string rules.
StringLiteralCase ==
  /\ last.blk # 0
  /\ last.before.cls \in {PythonHighlighter, JavaScriptHighlighter}
  /\ last.prev \in {NoState, STATE_DEFAULT}
  /\ ReMatch(StringRule(last.before), last.text, 0).e = Len(last.text)

\* C10: a quoted string gets a string span over the whole quoted text, both
\* quote characters included, and each escape sequence in it gets a
\* string_escape span over exactly its characters.
StringLiteral ==
  StringLiteralCase =>
    /\ \E j \in DOMAIN last.fmt :
          /\ last.fmt[j].k = "string"
          /\ last.fmt[j].s = 0 /\ last.fmt[j].n = Len(last.text)
    /\ \A e \in {FindIter(EscapeRule(last.before), last.text, 0)[i] :
                   i \in DOMAIN FindIter(EscapeRule(last.before), last.text,
                                         0)} :
          \E j \in DOMAIN last.fmt :
             /\ last.fmt[j].k = "string_escape"
             /\ last.fmt[j].s = e.s /\ last.fmt[j].n = e.e - e.s

(***************************************************************************)
(* apply_rules_within_range applied to a subrange of a line.               *)
(***************************************************************************)
\* The lines the internal rules are tried on: escapes, interpolation
\* markers, variable references and command substitutions.
RangeTexts(f) ==
  CASE f = "js" -> {<<"a", "\\", "n", "$", "{", "b", "}">>,
                    <<"\\", Backtick, "}", "\\", "n">>}
    [] f = "py" -> {<<"\\", "n", "{", "b", "}", "{", "{">>,
                    <<"a", "}", "}", "\\", "n">>}
    [] f = "sh" -> {<<"$", "x", Backtick, "a", Backtick>>,
                    <<"$", "(", "a", ")", "$", "x">>}

\* The families whose class overrides apply_rules_within_range.
RangeFamilies == {"js", "py", "sh"}

\* The states a caller passes as current_state.
RangeStates(f) ==
  CASE f = "js" -> {STATE_DEFAULT, STATE_MULTILINE_COMMENT,
                    STATE_TEMPLATE_LITERAL}
    [] f = "py" -> {STATE_DEFAULT, STATE_TRIPLE_QUOTE_STRING, STATE_DOCSTRING}
    [] f = "sh" -> {STATE_DEFAULT, STATE_MULTILINE_COMMENT,
                    STATE_TRIPLE_QUOTE_STRING}

\* The keyword arguments a caller passes.
RangeKwargs(f) ==
  IF f = "py"
  THEN {[is_fstring |-> a, is_raw |-> b] : a \in BOOLEAN, b \in BOOLEAN}
  ELSE {NoKwargs}

RangeInit ==
  /\ family \in RangeFamilies
  /\ EditorInit
  /\ tie = NoTie
  /\ trial = NoTrial

\* self.apply_rules_within_range(text, start, length, current_state,
\* **kwargs) on an instance whose block has no format yet
ApplyRulesWithinRange(cls, text, start, length, current_state, kwargs) ==
  /\ trial = NoTrial
  /\ trial' = [op |-> "apply_rules_within_range", text |-> text,
               start |-> start, length |-> length,
               fmt |-> apply_rules_within_range(NewContext(NewInstance(cls)),
                                                text, start, length,
                                                current_state, kwargs).fmt]
  /\ UNCHANGED <<editor, tie>>

RangeNext ==
  \E cls \in Classes(family) : \E text \in RangeTexts(family) :
    \E start \in 0..Len(text) : \E length \in 0..(Len(text) - start) :
      \E current_state \in RangeStates(family) :
        \E kwargs \in RangeKwargs(family) :
          ApplyRulesWithinRange(cls, text, start, length, current_state,
                                kwargs)

SpecRange == RangeInit /\ [][RangeNext]_vars

\* The categories of the internal-rule pass.
OverrideCategories == {"string_escape", "string_special", "special_var"}

OrphanCase ==
  /\ last.blk # 0
  /\ last.prev \notin {NoState, STATE_DEFAULT}
  /\ ConstructsOf(last.before, last.prev) = {}

\* C12: a call whose incoming state is non-zero and is the state of no
\* construct gives the spans and the outgoing state of a call on the same
\* block and line with incoming state Default.
OrphanRecovery ==
  OrphanCase =>
    LET c == highlightBlock(last.before, last.text, STATE_DEFAULT,
                            last.stored)
    IN /\ c.fmt = last.fmt
       /\ currentBlockState(c, last.stored) = last.state

(***************************************************************************)
(* Failures of the embedded part of a line.                                *)
(***************************************************************************)
\* The last call needed a sub-highlighter for a part of its line, and the
\* part failed: the sub-highlighter could not be created, or the
\* highlight_segment call raised.
FailedPart == last.blk # 0 /\ last.segments # <<>>

\* The state the state machine prescribes for the last call.
PrescribedState ==
  IF last.opened # NoOpen
  THEN TriggerByKey(last.after, last.opened.key).state
  ELSE IF \E k \in ConstructsOf(last.before, last.prev) :
            ~IsMatch(ReSearch(k.end, last.text, 0))
  THEN last.prev
  ELSE STATE_DEFAULT

\* C13: a call of which an embedded part fails (the sub-highlighter cannot
\* be created, or highlight_segment raises) still writes the delimiters
\* around the part, writes nothing over the part, and leaves the state the
\* state machine prescribes.
NoFatalErrors ==
  FailedPart =>
    /\ last.state = PrescribedState
    /\ \A j \in DOMAIN last.segments :
          LET sg == last.segments[j]
              k == EmbeddingConstruct(sg.sub)
              content_end == sg.start + ContentLength(sg.sub, sg.start)
          IN /\ sg.start > 0 =>
                  Covers(last.fmt, sg.start - 1, k.format_key, "delim")
             /\ content_end < Len(last.text) =>
                  Covers(last.fmt, content_end, k.format_key, "delim")
             /\ \A o \in sg.start..(content_end - 1) :
                   \A i \in DOMAIN last.fmt :
                      ~(last.fmt[i].s <= o
                        /\ o < last.fmt[i].s + last.fmt[i].n)

\* Both failures on a part that has a delimiter before it and one after it.
NoFatalErrorsWitness ==
  /\ FailedPart
  /\ \E j \in DOMAIN last.segments :
        /\ ~last.segments[j].created
        /\ last.segments[j].start > 0
        /\ last.segments[j].start
             + ContentLength(last.segments[j].sub, last.segments[j].start)
           < Len(last.text)
  /\ last.state = STATE_DEFAULT

(***************************************************************************)
(* The construct tables of all the language classes, and the lookup of the *)
(* construct of an incoming state.                                         *)
(***************************************************************************)
JsonHighlighter == "JsonHighlighter"
PowerShellHighlighter == "PowerShellHighlighter"
BatchHighlighter == "BatchHighlighter"

\* [\r\n]
LineBreak == Chr({"\r", "\n"})

\* PowerShellHighlighter.__init__, lines 1850-1875
PowerShell_multiline_triggers ==
  <<[key |-> "comment",
     start |-> Cat(<<Lit("<"), Lit("#")>>),
     end |-> Cat(<<Lit("#"), Lit(">")>>),
     state |-> STATE_MULTILINE_COMMENT,
     format_key |-> "comment",
     internal_format |-> "comment",
     sub_highlighter |-> None,
     priority |-> 15],
    [key |-> "here_string_double",
     start |-> Cat(<<Lit("@"), Lit("\""), LineBreak>>),
     end |-> Cat(<<LineBreak, Lit("\""), Lit("@")>>),
     state |-> STATE_TRIPLE_QUOTE_STRING,
     format_key |-> "string_special",
     internal_format |-> "string",
     sub_highlighter |-> None,
     priority |-> 10],
    [key |-> "here_string_single",
     start |-> Cat(<<Lit("@"), Lit("'"), LineBreak>>),
     end |-> Cat(<<LineBreak, Lit("'"), Lit("@")>>),
     state |-> STATE_TRIPLE_QUOTE_STRING,
     format_key |-> "string_special",
     internal_format |-> "string",
     sub_highlighter |-> None,
     priority |-> 10]>>

\* The language classes of the module.
LanguageClasses ==
  {PythonHighlighter, JavaScriptHighlighter, HtmlHighlighter, CssHighlighter,
   JsonHighlighter, XmlHighlighter, PowerShellHighlighter, BashHighlighter,
   BatchHighlighter}

\* self.multiline_triggers of a new instance of cls, in the order of the
\* dict
TableOf(cls) ==
  CASE cls = XmlHighlighter -> Xml_multiline_triggers
    [] cls = PowerShellHighlighter -> PowerShell_multiline_triggers
    [] cls \in {JsonHighlighter, BatchHighlighter} -> <<>>
    [] OTHER -> multiline_triggers(NewInstance(cls))

\* The greatest state id a block is given in the lookups examined.
MaxState == 12

LookupInit ==
  /\ family \in Families
  /\ EditorInit
  /\ tie = NoTie
  /\ trial = NoTrial

\* lines 159-167 for an instance of cls and previousBlockState() =
\* current_state: the key of the construct the loop stops at
LookupTrigger(cls, current_state) ==
  /\ trial = NoTrial
  /\ trial' = [op |-> "lookup", cls |-> cls, current_state |-> current_state,
               found |-> FindTrigger(TableOf(cls), current_state, 1).key]
  /\ UNCHANGED <<editor, tie>>

LookupNext ==
  \E cls \in LanguageClasses : \E current_state \in 1..MaxState :
    LookupTrigger(cls, current_state)

SpecLookup == LookupInit /\ [][LookupNext]_vars

\* C14: every construct of a table has a non-zero state, and the lookup by
\* that state finds that construct and no other.
UniqueStates ==
  trial.op = "lookup" =>
    \A j \in DOMAIN TableOf(trial.cls) :
       LET k == TableOf(trial.cls)[j]
       IN /\ k.state # STATE_DEFAULT
          /\ k.state = trial.current_state => trial.found = k.key

(***************************************************************************)
(* The tables of the attached highlighter.                                 *)
(***************************************************************************)
\* C15: after any sequence of highlightBlock calls the rule set and the
\* construct table of the highlighter are those its construction built.
TableImmutability ==
  highlighter # NoHighlighter =>
    /\ single_line_rules(highlighter)
         = single_line_rules(NewInstance(highlighter.cls))
    /\ multiline_triggers(highlighter)
         = multiline_triggers(NewInstance(highlighter.cls))

(***************************************************************************)
(* The cache of sub-highlighters.                                          *)
(***************************************************************************)
\* The call `call` looked up the sub-highlighter of `factory`: its line
\* began inside the construct that embeds it, or it handed content to it.
Needed(call, factory) ==
  \/ \E k \in ConstructsOf(call.before, call.prev) :
        k.sub_highlighter = factory
  \/ \E j \in DOMAIN call.segments : call.segments[j].sub.cls = factory

\* A highlightBlock call of the attached highlighter: the cache holds at
\* most one instance per factory, keeps every entry it held, gets an entry
\* only for a factory the call needed, and gets one for every factory the
\* call needed unless the creation raised.
CacheStep ==
  pending # 0 =>
    /\ \A e1, e2 \in highlighter'.cache :
          e1.factory = e2.factory => e1 = e2
    /\ highlighter.cache \subseteq highlighter'.cache
    /\ \A e \in highlighter'.cache \ highlighter.cache :
          Needed(last', e.factory)
    /\ \A f \in {JavaScriptHighlighter, CssHighlighter} :
          (Needed(last', f) /\ ~highlighter.factory_raises)
            => Cached(highlighter'.cache, f)

\* C16: over any sequence of highlightBlock calls the cache holds at most
\* one sub-highlighter per factory, an instance is created only by the
\* first call that needs its language, and a cached entry is never replaced
\* or removed.
SubHighlighterCache == [][CacheStep]_vars

\* A call that needed a language found its sub-highlighter in the cache,
\* which holds both languages.
SubHighlighterCacheWitness ==
  /\ last.blk # 0
  /\ Cardinality(last.before.cache) = 2
  /\ last.after.cache = last.before.cache
  /\ last.segments # <<>>

(***************************************************************************)
(* get_highlighter_for_file                                                *)
(***************************************************************************)
Letters == <<"a", "b", "c", "d", "e", "f", "g", "h", "i", "j", "k", "l", "m", "n", "o", "p", "q", "r", "s", "t", "u", "v", "w", "x", "y", "z">>
Capitals == <<"A", "B", "C", "D", "E", "F", "G", "H", "I", "J", "K", "L", "M", "N", "O", "P", "Q", "R", "S", "T", "U", "V", "W", "X", "Y", "Z">>

\* str.lower() and str.upper() of one character
lower_char(ch) ==
  IF \E i \in DOMAIN Capitals : Capitals[i] = ch
  THEN Letters[CHOOSE i \in DOMAIN Capitals : Capitals[i] = ch] ELSE ch
upper_char(ch) ==
  IF \E i \in DOMAIN Letters : Letters[i] = ch
  THEN Capitals[CHOOSE i \in DOMAIN Letters : Letters[i] = ch] ELSE ch

\* ext without the call of lower()
same_case(s) == s

\* ext.lower()
lower(s) == [i \in DOMAIN s |-> lower_char(s[i])]

\* p.rfind(one of chars): the last 0-based index of a character of chars,
\* or -1
rfind(p, chars) ==
  IF \E i \in DOMAIN p : p[i] \in chars
  THEN (CHOOSE i \in DOMAIN p :
          p[i] \in chars /\ \A j \in DOMAIN p : p[j] \in chars => j <= i) - 1
  ELSE -1

\* The separators of os.path on a platform: sep and altsep.
Separators(platform) == IF platform = "nt" THEN {"\\", "/"} ELSE {"/"}

\* genericpath._splitext: the loop over the leading dots of the last
\* component; the result is the extension
RECURSIVE SplitLoop(_, _, _)
SplitLoop(p, filenameIndex, dotIndex) ==
  IF filenameIndex >= dotIndex THEN <<>>
  ELSE IF p[filenameIndex + 1] # "."
  THEN SubSeq(p, dotIndex + 1, Len(p))
  ELSE SplitLoop(p, filenameIndex + 1, dotIndex)

\* os.path.splitext(filepath)[1]
splitext(p, platform) ==
  IF rfind(p, {"."}) > rfind(p, Separators(platform))
  THEN SplitLoop(p, rfind(p, Separators(platform)) + 1, rfind(p, {"."}))
  ELSE <<>>

\* highlighter_map, lines 2278-2298
highlighter_map ==
  <<
    <<<<".", "p", "y">>, PythonHighlighter>>,
    <<<<".", "p", "y", "w">>, PythonHighlighter>>,
    <<<<".", "p", "y", "i">>, PythonHighlighter>>,
    <<<<".", "j", "s">>, JavaScriptHighlighter>>,
    <<<<".", "j", "s", "x">>, JavaScriptHighlighter>>,
    <<<<".", "m", "j", "s">>, JavaScriptHighlighter>>,
    <<<<".", "c", "j", "s">>, JavaScriptHighlighter>>,
    <<<<".", "h", "t", "m", "l">>, HtmlHighlighter>>,
    <<<<".", "h", "t", "m">>, HtmlHighlighter>>,
    <<<<".", "c", "s", "s">>, CssHighlighter>>,
    <<<<".", "j", "s", "o", "n">>, JsonHighlighter>>,
    <<<<".", "x", "m", "l">>, XmlHighlighter>>,
    <<<<".", "p", "s", "1">>, PowerShellHighlighter>>,
    <<<<".", "p", "s", "m", "1">>, PowerShellHighlighter>>,
    <<<<".", "p", "s", "d", "1">>, PowerShellHighlighter>>,
    <<<<".", "s", "h">>, BashHighlighter>>,
    <<<<".", "b", "a", "s", "h">>, BashHighlighter>>,
    <<<<".", "b", "a", "s", "h", "r", "c">>, BashHighlighter>>,
    <<<<".", "b", "a", "s", "h", "_", "p", "r", "o", "f", "i", "l", "e">>, BashHighlighter>>,
    <<<<".", "z", "s", "h">>, BashHighlighter>>,
    <<<<".", "k", "s", "h">>, BashHighlighter>>,
    <<<<".", "b", "a", "t">>, BatchHighlighter>>,
    <<<<".", "c", "m", "d">>, BatchHighlighter>>
  >>

\* highlighter_map.get(ext)
map_get(ext) ==
  IF \E i \in DOMAIN highlighter_map : highlighter_map[i][1] = ext
  THEN highlighter_map[CHOOSE i \in DOMAIN highlighter_map :
                         highlighter_map[i][1] = ext][2]
  ELSE None

\* A filepath argument: None, a str, or a value of another type.
NoPath == [kind |-> "None", s |-> <<>>]
StrPath(s) == [kind |-> "str", s |-> s]
OtherPath == [kind |-> "other", s |-> <<>>]

\* The class selected for the extension, lines 2269-2310
highlighter_class(filepath, platform) ==
  IF filepath.kind = "str" /\ filepath.s # <<>>
  THEN IF lower(splitext(filepath.s, platform)) # <<>>
       THEN map_get(lower(splitext(filepath.s, platform)))
       ELSE None
  ELSE None

\* get_highlighter_for_file(filepath, document, colors): the class of the
\* instance returned, or None.  document is "QTextDocument", None or
\* "other" (a value that is no QTextDocument).
get_highlighter_for_file(filepath, document, platform) ==
  IF highlighter_class(filepath, platform) # None
  THEN IF document = "QTextDocument"
       THEN highlighter_class(filepath, platform)
       ELSE None
  ELSE None

\* The directory parts and name stems of the paths tried, the longest of
\* MaxStem characters.
MaxStem == 5
Stems ==
  {s \in {<<>>, <<"a">>, <<".">>, <<".", ".">>, <<"a", ".">>, <<"a", "/">>,
          <<"a", "\\">>, <<"a", ".", "b", "/">>, <<"a", ".", "b", "\\">>,
          <<"a", ".", "b", "/", "c">>} : Len(s) <= MaxStem}

\* The endings of the paths tried: every key of the map in lower case, in
\* upper case and with its first letter in upper case, and endings that
\* are no key.
CaseVariants(ext) ==
  {ext, [i \in DOMAIN ext |-> upper_char(ext[i])],
   [i \in DOMAIN ext |-> IF i = 2 THEN upper_char(ext[i]) ELSE ext[i]]}
Endings ==
  UNION {CaseVariants(highlighter_map[i][1]) : i \in DOMAIN highlighter_map}
  \cup {<<>>, <<".">>, <<"p", "y">>, <<".", "t", "x", "t">>,
        <<".", "p", "y", "/", "a">>, <<".", "p", "y", ".">>}

Documents == {"QTextDocument", None, "other"}
Platforms == {"posix", "nt"}

SelectInit ==
  /\ family \in Families
  /\ EditorInit
  /\ tie = NoTie
  /\ trial = NoTrial

\* MainWindow calls get_highlighter_for_file(filepath, document, colors)
GetHighlighterForFile(filepath, document, platform) ==
  /\ trial = NoTrial
  /\ trial' = [op |-> "get_highlighter_for_file", filepath |-> filepath,
               document |-> document, platform |-> platform,
               result |-> get_highlighter_for_file(filepath, document,
                                                   platform)]
  /\ UNCHANGED <<editor, tie>>

SelectNext ==
  \E filepath \in {NoPath, OtherPath}
                   \cup {StrPath(s \o e) : s \in Stems, e \in Endings} :
    \E document \in Documents : \E platform \in Platforms :
      GetHighlighterForFile(filepath, document, platform)

SpecSelect == SelectInit /\ [][SelectNext]_vars

\* The last component of a path: what follows its last separator.
LastComponent(p, platform) ==
  SubSeq(p, rfind(p, Separators(platform)) + 2, Len(p))

\* The extension of a file name: what begins at its last dot, when a
\* character other than a dot comes before that dot.
ExtensionOf(name) ==
  IF \E i \in DOMAIN name :
        /\ name[i] = "."
        /\ \A j \in (i + 1)..Len(name) : name[j] # "."
        /\ \E j \in 1..(i - 1) : name[j] # "."
  THEN SubSeq(name, CHOOSE i \in DOMAIN name :
                       name[i] = "." /\ \A j \in (i + 1)..Len(name) :
                                           name[j] # ".",
              Len(name))
  ELSE <<>>

\* The keys of the map that equal ext but for the case of the letters.
KeysFor(ext) ==
  {i \in DOMAIN highlighter_map :
     /\ Len(highlighter_map[i][1]) = Len(ext)
     /\ \A j \in DOMAIN ext :
           highlighter_map[i][1][j] \in {ext[j], lower_char(ext[j])}}

\* C17: get_highlighter_for_file returns None when the path is None or
\* empty or no str, when the file name has no extension or one that is no
\* key of the map, and when the document is no QTextDocument; for an
\* extension that is a key of the map in any letter case and a
\* QTextDocument it returns the class the map gives for the key.
Selection ==
  trial.op = "get_highlighter_for_file" =>
    LET ext == ExtensionOf(LastComponent(trial.filepath.s, trial.platform))
    IN IF /\ trial.filepath.kind = "str"
          /\ trial.document = "QTextDocument"
          /\ KeysFor(ext) # {}
       THEN \A i \in KeysFor(ext) : trial.result = highlighter_map[i][2]
       ELSE trial.result = None

\* A key of the map in upper case after a directory selects its class.
SelectionWitness ==
  /\ trial.op = "get_highlighter_for_file"
  /\ trial.result = BashHighlighter
  /\ \E i \in DOMAIN trial.filepath.s : trial.filepath.s[i] = "S"
  /\ \E i \in DOMAIN trial.filepath.s : trial.filepath.s[i] = "/"

(***************************************************************************)
(* SyntaxHighlighter.__init__: the style registry.  A colour value is a    *)
(* str that names a colour ("#rrggbb"), a str that names none ("bad"), or  *)
(* a value QColor() raises TypeError for ("None").                         *)
(***************************************************************************)
\* The fallback theme of lines 45-50.
fallback_colors ==
  [k \in {"black", "white", "gray2", "gray3", "gray4", "blue", "green", "red",
          "orange", "yellow", "pink"} |->
     CASE k = "black" -> "#1e222a" [] k = "white" -> "#abb2bf"
       [] k = "gray2" -> "#2e323a" [] k = "gray3" -> "#545862"
       [] k = "gray4" -> "#6d8dad" [] k = "blue" -> "#61afef"
       [] k = "green" -> "#7EC7A2" [] k = "red" -> "#e06c75"
       [] k = "orange" -> "#caaa6a" [] k = "yellow" -> "#EBCB8B"
       [] k = "pink" -> "#c678dd"]

\* The calls of _create_format_safe of lines 80-109, one for each category.
format_calls ==
  <<
    [category |-> "keyword", color_key |-> "blue", fallback |-> "#61afef",
     bold |-> FALSE, italic |-> FALSE],
    [category |-> "keyword_decl", color_key |-> "blue", fallback |-> "#61afef",
     bold |-> TRUE, italic |-> FALSE],
    [category |-> "keyword_ctrl", color_key |-> "pink", fallback |-> "#c678dd",
     bold |-> FALSE, italic |-> FALSE],
    [category |-> "keyword_imp", color_key |-> "pink", fallback |-> "#c678dd",
     bold |-> FALSE, italic |-> FALSE],
    [category |-> "builtin", color_key |-> "red", fallback |-> "#e06c75",
     bold |-> FALSE, italic |-> FALSE],
    [category |-> "special_var", color_key |-> "yellow", fallback |-> "#EBCB8B",
     bold |-> FALSE, italic |-> FALSE],
    [category |-> "operator", color_key |-> "white", fallback |-> "#abb2bf",
     bold |-> FALSE, italic |-> FALSE],
    [category |-> "brace", color_key |-> "white", fallback |-> "#abb2bf",
     bold |-> FALSE, italic |-> FALSE],
    [category |-> "punctuation", color_key |-> "white", fallback |-> "#abb2bf",
     bold |-> FALSE, italic |-> FALSE],
    [category |-> "number", color_key |-> "red", fallback |-> "#e06c75",
     bold |-> FALSE, italic |-> FALSE],
    [category |-> "func_name", color_key |-> "green", fallback |-> "#7EC7A2",
     bold |-> FALSE, italic |-> FALSE],
    [category |-> "class_name", color_key |-> "orange", fallback |-> "#caaa6a",
     bold |-> TRUE, italic |-> FALSE],
    [category |-> "decorator", color_key |-> "pink", fallback |-> "#c678dd",
     bold |-> TRUE, italic |-> FALSE],
    [category |-> "string", color_key |-> "green", fallback |-> "#98C379",
     bold |-> FALSE, italic |-> FALSE],
    [category |-> "string_escape", color_key |-> "pink", fallback |-> "#c678dd",
     bold |-> TRUE, italic |-> FALSE],
    [category |-> "string_special", color_key |-> "yellow", fallback |-> "#EBCB8B",
     bold |-> FALSE, italic |-> TRUE],
    [category |-> "docstring", color_key |-> "gray4", fallback |-> "#6d8dad",
     bold |-> FALSE, italic |-> TRUE],
    [category |-> "regex", color_key |-> "pink", fallback |-> "#c678dd",
     bold |-> FALSE, italic |-> FALSE],
    [category |-> "comment", color_key |-> "gray4", fallback |-> "#6d8dad",
     bold |-> FALSE, italic |-> TRUE],
    [category |-> "html_tag", color_key |-> "blue", fallback |-> "#61afef",
     bold |-> FALSE, italic |-> FALSE],
    [category |-> "html_attr_name", color_key |-> "yellow", fallback |-> "#EBCB8B",
     bold |-> FALSE, italic |-> FALSE],
    [category |-> "html_attr_value", color_key |-> "green", fallback |-> "#98C379",
     bold |-> FALSE, italic |-> FALSE],
    [category |-> "html_entity", color_key |-> "red", fallback |-> "#e06c75",
     bold |-> FALSE, italic |-> FALSE],
    [category |-> "css_selector", color_key |-> "pink", fallback |-> "#c678dd",
     bold |-> FALSE, italic |-> FALSE],
    [category |-> "css_property", color_key |-> "white", fallback |-> "#abb2bf",
     bold |-> FALSE, italic |-> FALSE],
    [category |-> "css_value", color_key |-> "green", fallback |-> "#98C379",
     bold |-> FALSE, italic |-> FALSE],
    [category |-> "json_key", color_key |-> "blue", fallback |-> "#61afef",
     bold |-> FALSE, italic |-> FALSE]
  >>

\* The values that are no colour: QColor(v).isValid() is False, or QColor(v)
\* raises.
InvalidValues == {"bad", "None"}

\* _create_format_safe(color_key, fallback, bold, italic), lines 54-76,
\* colors being self.colors
_create_format_safe(colors, call) ==
  IF (IF call.color_key \in DOMAIN colors THEN colors[call.color_key]
      ELSE call.fallback) \notin InvalidValues
  THEN [color |-> IF call.color_key \in DOMAIN colors
                  THEN colors[call.color_key] ELSE call.fallback,
        bold |-> call.bold, italic |-> call.italic]
  ELSE [color |-> call.fallback, bold |-> FALSE, italic |-> FALSE]

\* A colors argument: a dict, or a value that is no dict.
NotADict == [kind |-> "other", d |-> <<>>]
Dict(d) == [kind |-> "dict", d |-> d]

\* lines 41-50: self.colors
self_colors(colors) ==
  IF colors.kind = "dict" /\ DOMAIN colors.d # {} THEN colors.d
  ELSE fallback_colors

\* lines 79-110: self.formats, a style for each category
formats_of(colors) ==
  [j \in DOMAIN format_calls |->
     [category |-> format_calls[j].category,
      style |-> _create_format_safe(self_colors(colors), format_calls[j])]]

\* The colors arguments tried: no dict, and the dicts that give each of
\* three keys a colour, a value that is none, or nothing, and give all the
\* other keys a colour or nothing.
ThemeKeys == {"green", "blue", "gray4"}
OtherKeys == {"white", "red", "orange", "yellow", "pink"}
ThemeValues == {"#112233", "bad", "None", "missing"}
Themes ==
  {NotADict}
  \cup {Dict([k \in {x \in ThemeKeys : v[x] # "missing"}
                    \cup (IF others THEN OtherKeys ELSE {}) |->
                IF k \in ThemeKeys THEN v[k] ELSE "#445566"]) :
          v \in [ThemeKeys -> ThemeValues], others \in BOOLEAN}

RegistryInit ==
  /\ family \in Families
  /\ EditorInit
  /\ tie = NoTie
  /\ trial = NoTrial

\* SyntaxHighlighter.__init__(document, colors)
Construct(colors) ==
  /\ trial = NoTrial
  /\ trial' = [op |-> "__init__", colors |-> colors,
               formats |-> formats_of(colors)]
  /\ UNCHANGED <<editor, tie>>

RegistryNext == \E colors \in Themes : Construct(colors)

SpecRegistry == RegistryInit /\ [][RegistryNext]_vars

\* The colour the user gives for a colour key, or "missing".
Given(colors, key) ==
  IF colors.kind = "dict" /\ key \in DOMAIN colors.d
     /\ colors.d[key] \notin InvalidValues
  THEN colors.d[key] ELSE "missing"

Visit(L, match_info, after, skipped) ==
  [match_info |-> match_info, before |-> L, after |-> after,
   skipped |-> skipped]

RECURSIVE WalkFrom(_, _, _, _, _)
\* The visit of candidate k, `after` being the loop's state after it, and
\* the visits that follow.
WalkStep(L, matches, k, text, start_offset, after) ==
  <<Visit(L, matches[k], after,
          SkipCandidate(L, matches[k], text, start_offset))>>
  \o WalkFrom(after, matches, k + 1, text, start_offset)

\* lines 262-366: the candidates the loop reaches, in order
WalkFrom(L, matches, k, text, start_offset) ==
  IF k > Len(matches) \/ L.brk THEN <<>>
  ELSE WalkStep(L, matches, k, text, start_offset,
                ApplyCandidate(L, matches[k], text, start_offset))

\* lines 238-366: the walk of a call whose handling of the incoming state
\* gave `first`
WalkOf(first, text) ==
  IF first.returned \/ first.start_offset >= Len(text) THEN <<>>
  ELSE WalkFrom([c |-> first.c, last_applied_end |-> first.start_offset,
                 did_set_state_in_loop |-> FALSE, brk |-> FALSE],
                Sorted(_find_matches(first.c.self, text, first.current_state,
                                     first.start_offset)),
                1, text, first.start_offset)

\* The walk of the last call of highlightBlock.
LastWalk ==
  IF last.blk = 0 THEN <<>>
  ELSE WalkOf(FirstOf(NewContext(last.before), last.text,
                      FindTrigger(multiline_triggers(last.before),
                                  IncomingState(last.prev), 1),
                      IncomingState(last.prev)),
              last.text)

\* The offsets of a candidate on the line.
OffsetsOf(match_info, text) ==
  match_info.match.s..(Min(match_info.match.e, Len(text)) - 1)

\* An offset of the candidate is styled when the loop reaches it.
PartlyStyled(v, text) ==
  OffsetsOf(v.match_info, text) \cap v.before.c.applied # {}

\* C19: a candidate of which any offset is already styled when the walk
\* reaches it is skipped entirely: it writes no span and no state, and
\* opens no construct.
OverlapSkipping ==
  \A i \in DOMAIN LastWalk :
     PartlyStyled(LastWalk[i], last.text)
     => /\ LastWalk[i].after.c.fmt = LastWalk[i].before.c.fmt
        /\ LastWalk[i].after.c.writes = LastWalk[i].before.c.writes
        /\ LastWalk[i].after.c.opened = LastWalk[i].before.c.opened

(***************************************************************************)
(* The order in which highlightBlock and highlight_segment take their      *)
(* candidates.                                                             *)
(***************************************************************************)
\* The candidates of a walk, in the order the loop reaches them.
CandidatesOf(walk) == [i \in DOMAIN walk |-> walk[i].match_info]

OrderInit ==
  /\ family \in Families
  /\ EditorInit
  /\ tie = NoTie
  /\ trial = NoTrial

\* highlightBlock, lines 249-366: the candidates found from start_offset in
\* Default state, sorted and walked
HighlightBlockOrder(cls, text, start_offset) ==
  /\ trial = NoTrial
  /\ trial' = [op |-> "highlightBlock", cls |-> cls, text |-> text,
               start_offset |-> start_offset,
               processed |->
                 CandidatesOf(
                   WalkOf([c |-> NewContext(NewInstance(cls)),
                           start_offset |-> start_offset,
                           current_state |-> STATE_DEFAULT,
                           returned |-> FALSE], text))]
  /\ UNCHANGED <<editor, tie>>

\* highlight_segment, lines 660-662: the candidates of the segment, sorted;
\* `for match_info in seg_matches` takes them in this order
HighlightSegmentOrder(cls, text, start, length) ==
  /\ trial = NoTrial
  /\ trial' = [op |-> "highlight_segment", cls |-> cls,
               text |-> Slice(text, start, length), start_offset |-> 0,
               processed |->
                 SegSorted(_find_matches(NewInstance(cls),
                                         Slice(text, start, length),
                                         STATE_DEFAULT, 0))]
  /\ UNCHANGED <<editor, tie>>

OrderNext ==
  \E cls \in Classes(family) : \E text \in Corpus(family) :
    \E start \in 0..Len(text) :
      \/ HighlightBlockOrder(cls, text, start)
      \/ \E length \in 1..(Len(text) - start) :
           HighlightSegmentOrder(cls, text, start, length)

SpecOrder == OrderInit /\ [][OrderNext]_vars

\* Candidate a is not after candidate b in the order (start ascending,
\* length descending, rule index ascending).
NotAfter(a, b) ==
  \/ a.match.s < b.match.s
  \/ /\ a.match.s = b.match.s
     /\ a.match.e - a.match.s > b.match.e - b.match.s
  \/ /\ a.match.s = b.match.s
     /\ a.match.e - a.match.s = b.match.e - b.match.s
     /\ a.rule_index <= b.rule_index

\* C20: highlightBlock and highlight_segment take their candidates in
\* ascending order of match start, then descending match length, then
\* ascending rule index, so that of two candidates with the same start the
\* longer one comes first whatever their rule indexes.
CandidateOrdering ==
  trial.op \in {"highlightBlock", "highlight_segment"} =>
    \A i, j \in DOMAIN trial.processed :
       i < j =>
         /\ NotAfter(trial.processed[i], trial.processed[j])
         /\ trial.processed[i].match.s = trial.processed[j].match.s
            => trial.processed[i].match.e >= trial.processed[j].match.e

\* Two candidates of one start are taken, the longer first although its
\* rule index is the greater.
LongerFirst(op) ==
  /\ trial.op = op
  /\ \E i, j \in DOMAIN trial.processed :
        /\ i < j
        /\ trial.processed[i].match.s = trial.processed[j].match.s
        /\ trial.processed[i].match.e > trial.processed[j].match.e
        /\ trial.processed[i].rule_index > trial.processed[j].rule_index

CandidateOrderingWitness == LongerFirst("highlightBlock")

CandidateOrderingSegmentWitness == LongerFirst("highlight_segment")

(***************************************************************************)
(* Construct starts applied by the loop.                                   *)
(***************************************************************************)
\* The visit applies the start of a construct.
StartApplied(v) == v.match_info.type = "multi_start" /\ ~v.skipped

\* The construct of the visit, as the table holds it after the visit.
StartedTrigger(v) == TriggerByKey(v.after.c.self, v.match_info.trigger_key)

\* The end pattern of the visit's construct has no match on the line after
\* the start delimiter.
NoEndOnLine(v, text) ==
  ~IsMatch(ReSearch(StartedTrigger(v).end, text, v.match_info.match.e))

\* The property of C21 for the visits of `walk`, fmt and state being the
\* spans and the state of the call.
StartWithoutEndIn(walk, text, fmt, state) ==
  \A i \in DOMAIN walk :
     (StartApplied(walk[i]) /\ NoEndOnLine(walk[i], text))
     => /\ \A o \in walk[i].match_info.match.s..(Len(text) - 1) :
              o \in walk[i].after.c.applied
        /\ walk[i].after.brk
        /\ i = Len(walk)
        /\ fmt = walk[i].after.c.fmt
        /\ state = StartedTrigger(walk[i]).state

\* C21: when an applied construct start has no end match in the rest of
\* the line, every offset from the start delimiter to the end of the line
\* is consumed, the loop stops, so that no later candidate adds a span, and
\* the state the call leaves is the construct's state.
StartWithoutEnd == StartWithoutEndIn(LastWalk, last.text, last.fmt, last.state)

\* The last visit of `walk` applies a construct start without end that is
\* followed by more text.
EndsOpen(walk, text) ==
  /\ walk # <<>>
  /\ StartApplied(walk[Len(walk)])
  /\ NoEndOnLine(walk[Len(walk)], text)
  /\ walk[Len(walk)].match_info.match.e < Len(text)

StartWithoutEndWitness == last.blk # 0 /\ EndsOpen(LastWalk, last.text)

(***************************************************************************)
(* The remainder of a line after the end of the construct it began in.     *)
(***************************************************************************)
\* The construct the last call began in, NoTrigger if none.
LastTrigger ==
  FindTrigger(multiline_triggers(last.before), IncomingState(last.prev), 1)

\* The match of that construct's end pattern on the line.
LastEnd == ReSearch(LastTrigger.end, last.text, 0)

\* The last call began in a construct whose end it found on the line.
EndedOnLine == last.blk # 0 /\ LastTrigger.key # None /\ IsMatch(LastEnd)

\* The spans a visit wrote.
SpansOf(v) ==
  SubSeq(v.after.c.fmt, Len(v.before.c.fmt) + 1, Len(v.after.c.fmt))

\* The candidates of `self` in Default state from offset e.
DefaultCandidates(self, text, e) ==
  IF e < Len(text) THEN _find_matches(self, text, STATE_DEFAULT, e) ELSE <<>>

\* The property of C22 for the visits of `walk`, e being the end of the
\* end delimiter and found the Default-state candidates from e.
ResumptionIn(walk, text, e, found, state) ==
  /\ \A i \in DOMAIN walk :
        /\ \E j \in DOMAIN found : found[j] = walk[i].match_info
        /\ ~walk[i].skipped => walk[i].match_info.match.s >= e
        /\ \A j \in DOMAIN SpansOf(walk[i]) : SpansOf(walk[i])[j].s >= e
  /\ Len(walk) = Len(found) \/ (walk # <<>> /\ walk[Len(walk)].after.brk)
  /\ state = IF walk # <<>> /\ walk[Len(walk)].after.brk
             THEN StartedTrigger(walk[Len(walk)]).state
             ELSE STATE_DEFAULT

\* C22: when the end of the construct a line began in is found at [s, e),
\* no single-line rule or construct start is applied below e, the
\* candidates walked are those of Default state from e onward, and the
\* state the call leaves is that of the construct started without end in
\* the remainder, or Default if there is none.
Resumption ==
  EndedOnLine =>
    ResumptionIn(LastWalk, last.text, LastEnd.e,
                 DefaultCandidates(last.after, last.text, LastEnd.e),
                 last.state)

\* A construct ends mid-line and a candidate of the remainder is applied.
ResumptionWitness ==
  /\ EndedOnLine
  /\ LastEnd.e < Len(last.text)
  /\ \E i \in DOMAIN LastWalk : ~LastWalk[i].skipped

(***************************************************************************)
(* Sessions on an XML file: the CDATA construct, whose content category is *)
(* None.                                                                   *)
(***************************************************************************)
XmlInit ==
  /\ family = "xml"
  /\ EditorInit
  /\ tie = NoTie
  /\ trial = NoTrial

SpecXml == XmlInit /\ [][Next]_vars

\* No span of fmt holds an offset of [a, b).
Unstyled(fmt, a, b) ==
  \A j \in DOMAIN fmt : fmt[j].s + fmt[j].n <= a \/ fmt[j].s >= b

\* fmt has the span of the delimiter m, and no other span on its offsets.
DelimiterStyled(fmt, m, key) ==
  /\ \E j \in DOMAIN fmt :
        fmt[j].s = m.s /\ fmt[j].n = m.e - m.s /\ fmt[j].k = key
  /\ \A j \in DOMAIN fmt :
        \/ fmt[j].s + fmt[j].n <= m.s
        \/ fmt[j].s >= m.e
        \/ (fmt[j].s = m.s /\ fmt[j].n = m.e - m.s /\ fmt[j].k = key)

\* The CDATA construct of XmlHighlighter: the construct whose content
\* category is None and that names no embedded language.
IsCdata(trigger) == trigger.key = "cdata"

\* The property of C23 on a line that begins in the inert construct.
InertContinuation(trigger, text, end_match, fmt, state, walk) ==
  IF IsMatch(end_match)
  THEN /\ Unstyled(fmt, 0, end_match.s)
       /\ DelimiterStyled(fmt, end_match, trigger.format_key)
       /\ (\A i \in DOMAIN walk : ~StartApplied(walk[i]))
          => state = STATE_DEFAULT
  ELSE /\ fmt = <<>>
       /\ state = trigger.state

\* The property of C23 for a visit that applies the start of the inert
\* construct, end_match being the match of its end pattern after the start
\* delimiter.
InertStart(v, text, end_match, fmt, state) ==
  /\ DelimiterStyled(fmt, v.match_info.match, StartedTrigger(v).format_key)
  /\ IF IsMatch(end_match)
     THEN /\ Unstyled(fmt, v.match_info.match.e, end_match.s)
          /\ DelimiterStyled(fmt, end_match, StartedTrigger(v).format_key)
     ELSE /\ Unstyled(fmt, v.match_info.match.e, Len(text))
          /\ state = StartedTrigger(v).state

\* The property of C23 for the visits of `walk`.
InertStarts(walk, text, fmt, state) ==
  \A i \in DOMAIN walk :
     (StartApplied(walk[i]) /\ IsCdata(StartedTrigger(walk[i])))
     => InertStart(walk[i], text,
                   ReSearch(StartedTrigger(walk[i]).end, text,
                            walk[i].match_info.match.e),
                   fmt, state)

\* C23: the content of a construct with content category None and no
\* embedded language (XML CDATA) gets no span on the start line, on
\* continuation lines and on the closing line; its delimiters are styled,
\* and the state is the construct's while it is open and Default after its
\* end, as for a construct with a content category.
DisabledContent ==
  last.blk # 0 =>
    /\ IsCdata(LastTrigger)
       => InertContinuation(LastTrigger, last.text, LastEnd, last.fmt,
                            last.state, LastWalk)
    /\ InertStarts(LastWalk, last.text, last.fmt, last.state)

\* A line that begins in a CDATA section has content before the section's
\* end.
DisabledContentWitness ==
  /\ last.blk # 0
  /\ IsCdata(LastTrigger)
  /\ LastTrigger.internal_format = None
  /\ LastTrigger.sub_highlighter = None
  /\ IsMatch(LastEnd)
  /\ LastEnd.s > 0

\* A CDATA start is applied on a line that holds content after it.
DisabledContentStartWitness ==
  /\ last.blk # 0
  /\ \E i \in DOMAIN LastWalk :
        /\ StartApplied(LastWalk[i])
        /\ IsCdata(StartedTrigger(LastWalk[i]))
        /\ LastWalk[i].match_info.match.e < Len(last.text)

(***************************************************************************)
(* Sessions on lines that hold string literals one inside the other.       *)
(***************************************************************************)
StrInit ==
  /\ family = "str"
  /\ EditorInit
  /\ tie = NoTie
  /\ trial = NoTrial

SpecStr == StrInit /\ [][Next]_vars

\* The offsets of the spans of fmt written by `by`, with key `key` if key
\* is not None.
OffsetsBy(fmt, by, key) ==
  UNION {fmt[j].s..(fmt[j].s + fmt[j].n - 1) :
           j \in {i \in DOMAIN fmt :
                    fmt[i].by = by /\ (key = None \/ fmt[i].k = key)}}

\* The property of C24 for a visit: rule_spans are the offsets the visit
\* styled as string, pass_spans those the internal-rule pass styled.
PassWithin(v, rule_spans, pass_spans) ==
  /\ pass_spans \subseteq rule_spans
  /\ pass_spans \cap v.before.c.applied = {}

\* The property of C24 for the visits of `walk`.
PassRangeIn(walk) ==
  \A i \in DOMAIN walk :
     (walk[i].match_info.type = "single" /\ ~walk[i].skipped)
     => PassWithin(walk[i], OffsetsBy(SpansOf(walk[i]), "rule", "string"),
                   OffsetsBy(SpansOf(walk[i]), "internal", None))

\* C24: the internal-rule pass after a single-line string match styles
\* only offsets that this match application styled as string, and none
\* that an earlier candidate had styled.
PassRange == PassRangeIn(LastWalk)

(***************************************************************************)
(* Sessions on a shell script of three lines, enough for two heredocs.     *)
(***************************************************************************)
\* The number of blocks of the script.
HeredocLines == 3

HeredocInit ==
  /\ family = "sh"
  /\ highlighter = NoHighlighter
  /\ doc = [i \in 1..HeredocLines |-> <<>>]
  /\ userState = [i \in 1..HeredocLines |-> NoState]
  /\ formats = [i \in 1..HeredocLines |-> <<>>]
  /\ pending = 0
  /\ upto = 0
  /\ last = NoCall
  /\ prior = NoCall
  /\ tie = NoTie
  /\ trial = NoTrial

HeredocNext ==
  \/ \E i \in DOMAIN doc : \E t \in Corpus(family) \cup {<<>>} : EditLine(i, t)
  \/ \E cls \in Classes(family) : \E raises \in FactoryOutcomes(cls) :
       ApplySyntaxHighlighting(cls, raises)
  \/ HighlightBlock

SpecHeredoc == HeredocInit /\ [][HeredocNext]_vars

\* The delimiter word of the heredoc that line t opens, <<>> if it opens
\* none.
OpenedBy(t) ==
  IF IsMatch(HeredocStart(t))
  THEN SubSeq(t, HeredocStart(t).g[2][1] + 1, HeredocStart(t).g[2][2])
  ELSE <<>>

\* Line t consists of the word D after optional whitespace.
ConsistsOf(t, D) ==
  \E k \in 0..Len(t) :
     /\ \A j \in 1..k : t[j] \in Space
     /\ SubSeq(t, k + 1, Len(t)) = D

RECURSIVE OpenAfter(_, _)
\* The delimiter word of the heredoc that is open after line i of the
\* document d, <<>> if none is.
OpenAfter(d, i) ==
  IF i = 0 THEN <<>>
  ELSE IF OpenAfter(d, i - 1) = <<>> THEN OpenedBy(d[i])
  ELSE IF ConsistsOf(d[i], OpenAfter(d, i - 1)) THEN <<>>
  ELSE OpenAfter(d, i - 1)

\* A call of highlightBlock on a line that begins in a heredoc, the state
\* before it telling so, ends the heredoc if and only if the line consists
\* of the heredoc's delimiter word.
HeredocStep ==
  (/\ pending # 0
   /\ highlighter.cls = BashHighlighter
   /\ previousBlockState(pending) = STATE_TRIPLE_QUOTE_STRING
   /\ OpenAfter(doc, pending - 1) # <<>>)
  => userState'[pending] =
       IF ConsistsOf(doc[pending], OpenAfter(doc, pending - 1))
       THEN STATE_DEFAULT ELSE STATE_TRIPLE_QUOTE_STRING

\* C25: a heredoc opened with the delimiter word D is ended by a line that
\* consists of D after optional whitespace and by no other line, whatever
\* lines were highlighted before, the start line of a heredoc with another
\* delimiter among them.
HeredocTermination == [][HeredocStep]_vars

(***************************************************************************)
(* Rules whose format list names capture groups: the loops of              *)
(* highlightBlock and of highlight_segment applied to the candidates of a  *)
(* rule with two alternative groups and of a rule without group.           *)
(***************************************************************************)
\* (a)|(b): at most one of its two groups takes part in a match
GroupRule == Alt(<<Grp(1, Lit("a")), Grp(2, Lit("b"))>>)

\* c
PlainRule == Lit("c")

\* The groups a format list can name: those of GroupRule, and one more.
GroupRefs == 0..(Groups(GroupRule) + 1)

\* The format lists of one pair or two.
GroupFormats ==
  {FmtList(<<FmtTuple("keyword", g)>>) : g \in GroupRefs}
  \cup {FmtList(<<FmtTuple("keyword", g), FmtTuple("string", h)>>) :
          g \in GroupRefs, h \in GroupRefs}

\* The lines: the words of one to three letters over a, b, c.
GroupTexts ==
  UNION {[1..n -> {"a", "b", "c"}] : n \in 1..3}

\* _find_matches for a highlighter whose single_line_rules are the group
\* rule with the format list fmt, and the plain rule
GroupCandidates(fmt, text) ==
  RuleMatches(<<[idx |-> 0, re |-> GroupRule, fmt |-> fmt],
                [idx |-> 1, re |-> PlainRule, fmt |-> FmtStr("number")]>>,
              1, text, 0)

GroupInit ==
  /\ family \in Families
  /\ EditorInit
  /\ tie = NoTie
  /\ trial = NoTrial

\* highlightBlock, lines 249-302: the candidates are sorted and applied
ApplyGroupsInBlock(fmt, text) ==
  /\ trial = NoTrial
  /\ trial' = [op |-> "highlightBlock", text |-> text,
               candidates |-> GroupCandidates(fmt, text),
               fmt |-> ApplyLoop([c |-> NewContext(NewInstance(XmlHighlighter)),
                                  last_applied_end |-> 0,
                                  did_set_state_in_loop |-> FALSE,
                                  brk |-> FALSE],
                                 Sorted(GroupCandidates(fmt, text)), 1, text,
                                 0).c.fmt]
  /\ UNCHANGED <<editor, tie>>

\* highlight_segment, lines 660-733, on the segment that is the whole line
ApplyGroupsInSegment(fmt, text) ==
  /\ trial = NoTrial
  /\ trial' = [op |-> "highlight_segment", text |-> text,
               candidates |-> GroupCandidates(fmt, text),
               fmt |-> SegLoop([c |-> NewContext(NewInstance(HtmlHighlighter)),
                                applied |-> {}],
                               text, Len(text),
                               SegSorted(GroupCandidates(fmt, text)), 1, 0,
                               0).fmt]
  /\ UNCHANGED <<editor, tie>>

GroupNext ==
  \E fmt \in GroupFormats : \E text \in GroupTexts :
     \/ ApplyGroupsInBlock(fmt, text)
     \/ ApplyGroupsInSegment(fmt, text)

SpecGroups == GroupInit /\ [][GroupNext]_vars

\* The (category, group) pairs of a candidate.
PairsOf(m) ==
  IF m.format_info.kind = "str"
  THEN <<[key |-> m.format_info.key, group |-> 0]>>
  ELSE [j \in DOMAIN m.format_info.items |->
          [key |-> m.format_info.items[j].key,
           group |-> m.format_info.items[j].group]]

\* The offsets of the group of a pair in the candidate's match: none when
\* the pattern has no such group or the group took no part in the match.
GroupOffsets(m, pair) ==
  IF pair.group = 0 THEN m.match.s..(m.match.e - 1)
  ELSE IF pair.group > Groups(m.match.re) \/ m.match.g[pair.group][1] = -1
  THEN {}
  ELSE m.match.g[pair.group][1]..(m.match.g[pair.group][2] - 1)

\* The pair names a group that the pattern does not have or that took no
\* part in the match.
InvalidPair(m, pair) ==
  /\ pair.group # 0
  /\ pair.group > Groups(m.match.re) \/ m.match.g[pair.group][1] = -1

\* C26: a (category, group) pair that names a group the pattern does not
\* have or that took no part in the match adds no span, and every offset
\* of the group of every other pair of the rule and of every other
\* candidate is styled: each span lies in the group of a valid pair with
\* its category, and each offset of such a group is in a span.
InvalidGroup ==
  trial.op \in {"highlightBlock", "highlight_segment"}
  /\ "candidates" \in DOMAIN trial
  => /\ \A j \in DOMAIN trial.fmt :
          \E i \in DOMAIN trial.candidates :
             \E p \in DOMAIN PairsOf(trial.candidates[i]) :
                /\ PairsOf(trial.candidates[i])[p].key = trial.fmt[j].k
                /\ trial.fmt[j].s..(trial.fmt[j].s + trial.fmt[j].n - 1)
                     \subseteq GroupOffsets(trial.candidates[i],
                                            PairsOf(trial.candidates[i])[p])
     /\ \A i \in DOMAIN trial.candidates :
          \A p \in DOMAIN PairsOf(trial.candidates[i]) :
             \A o \in GroupOffsets(trial.candidates[i],
                                   PairsOf(trial.candidates[i])[p]) :
                \E j \in DOMAIN trial.fmt :
                   trial.fmt[j].s <= o /\ o < trial.fmt[j].s + trial.fmt[j].n

\* The first pair of a candidate is invalid, its second pair is not, and
\* another candidate follows on the line.
InvalidThenValid(op) ==
  /\ trial.op = op
  /\ "candidates" \in DOMAIN trial
  /\ \E i \in DOMAIN trial.candidates :
        /\ Len(PairsOf(trial.candidates[i])) = 2
        /\ InvalidPair(trial.candidates[i], PairsOf(trial.candidates[i])[1])
        /\ GroupOffsets(trial.candidates[i],
                        PairsOf(trial.candidates[i])[2]) # {}
        /\ \E k \in DOMAIN trial.candidates :
              trial.candidates[k].match.s > trial.candidates[i].match.s

InvalidGroupWitness == InvalidThenValid("highlightBlock")

InvalidGroupSegmentWitness == InvalidThenValid("highlight_segment")

(***************************************************************************)
(* highlight_segment called on the segments of lines of embedded           *)
(* JavaScript.                                                             *)
(***************************************************************************)
SegmentInit ==
  /\ family \in Families
  /\ EditorInit
  /\ tie = NoTie
  /\ trial = NoTrial

\* sub.highlight_segment(parent, text[start : start + length], start), sub
\* being the instance of cls that an HtmlHighlighter holds
HighlightSegment(cls, text, start, length) ==
  /\ trial = NoTrial
  /\ trial' = [op |-> "segment", cls |-> cls,
               text_segment |-> Slice(text, start, length),
               block_start_offset |-> start,
               found |-> _find_matches(NewInstance(cls),
                                       Slice(text, start, length),
                                       STATE_DEFAULT, 0),
               c |-> highlight_segment(NewInstance(cls),
                                       NewContext(NewInstance(HtmlHighlighter)),
                                       text, Slice(text, start, length),
                                       start)]
  /\ UNCHANGED <<editor, tie>>

SegmentNext ==
  \E cls \in Classes("seg") : \E text \in Corpus("seg") :
    \E start \in 0..(Len(text) - 1) : \E length \in 1..(Len(text) - start) :
       HighlightSegment(cls, text, start, length)

SpecSegment == SegmentInit /\ [][SegmentNext]_vars

\* Candidate i of found shares no offset with another candidate.
Isolated(found, i) ==
  \A j \in DOMAIN found :
     j # i => \/ found[j].match.e <= found[i].match.s
              \/ found[j].match.s >= found[i].match.e

\* A construct start is among the candidates of the segment.
HasConstructStart(found) ==
  \E j \in DOMAIN found : found[j].type = "multi_start"

\* C27: highlight_segment on a segment in which a construct start pattern
\* of the sub-language matches still styles the single-line rule matches
\* before and after the construct start, and sets no state of the parent's
\* block.
SegmentConstructStart ==
  (trial.op = "segment" /\ HasConstructStart(trial.found))
  => /\ trial.c.writes = <<>>
     /\ \A i \in DOMAIN trial.found :
          (trial.found[i].type = "single" /\ Isolated(trial.found, i))
          => \A o \in trial.found[i].match.s..(trial.found[i].match.e - 1) :
                \E j \in DOMAIN trial.c.fmt :
                   /\ trial.c.fmt[j].s <= o + trial.block_start_offset
                   /\ o + trial.block_start_offset
                        < trial.c.fmt[j].s + trial.c.fmt[j].n

(***************************************************************************)
(* Sessions on the lines of Python triple-quoted strings with a prefix.    *)
(***************************************************************************)
PrefixInit ==
  /\ family = "pre"
  /\ EditorInit
  /\ tie = NoTie
  /\ trial = NoTrial

SpecPrefix == PrefixInit /\ [][Next]_vars

\* The first match on line t of the start pattern of string3.
String3Start(t) ==
  ReSearch(TriggerByKey(NewInstance(PythonHighlighter), "string3").start, t, 0)

\* The match on line t, searched from offset pos, of the end pattern of
\* string3.
String3End(t, pos) ==
  ReSearch(TriggerByKey(NewInstance(PythonHighlighter), "string3").end, t, pos)

\* Line t opens a triple-quoted string that it does not close.
OpensString3(t) ==
  /\ IsMatch(String3Start(t))
  /\ ~IsMatch(String3End(t, String3Start(t).e))

\* The prefix letters, in lower case, of the string that line t opens.
PrefixLetters(t) ==
  {lower_char(t[j]) :
     j \in (String3Start(t).g[1][1] + 1)..String3Start(t).g[1][2]}

\* The 0-based offsets of the content of the string on a line t: after the
\* start delimiter on the start line (from = its end), from offset 0 on a
\* later line, and up to the end delimiter if the line has one.
ContentOffsets(t, from) ==
  from..((IF IsMatch(String3End(t, from))
          THEN String3End(t, from).s ELSE Len(t)) - 1)

\* fmt has a span of the key that covers offset o.
KeyCovers(fmt, o, key) ==
  \E j \in DOMAIN fmt :
     fmt[j].k = key /\ fmt[j].s <= o /\ o < fmt[j].s + fmt[j].n

\* The prefix flags hold over the offsets of `content` of line t, styled
\* as fmt: no escape is styled in a raw string, every brace of an f-string
\* is styled string_special.
FlagsHold(letters, t, content, fmt) ==
  /\ "r" \in letters
       => \A o \in content : ~KeyCovers(fmt, o, "string_escape")
  /\ "f" \in letters
       => \A o \in content :
             t[o + 1] \in {"{", "}"} => KeyCovers(fmt, o, "string_special")

\* A call of highlightBlock on the start line of a prefixed triple-quoted
\* string, or on the line after it, which begins in the string.
PrefixStep ==
  /\ (/\ pending = 1
      /\ highlighter.cls = PythonHighlighter
      /\ OpensString3(doc[1]))
     => FlagsHold(PrefixLetters(doc[1]), doc[1],
                  ContentOffsets(doc[1], String3Start(doc[1]).e), formats'[1])
  /\ (/\ pending = 2
      /\ highlighter.cls = PythonHighlighter
      /\ OpensString3(doc[1])
      /\ previousBlockState(2) = STATE_TRIPLE_QUOTE_STRING)
     => FlagsHold(PrefixLetters(doc[1]), doc[2],
                  ContentOffsets(doc[2], 0), formats'[2])

\* C28: the prefix flags of a Python triple-quoted string hold on every
\* line of the string: in a raw string no escape sequence is styled
\* string_escape, in an f-string the interpolation braces are styled
\* string_special, on the start line and on the continuation and closing
\* lines alike.
PrefixFlags == [][PrefixStep]_vars

(***************************************************************************)
(* Sessions on the lines of Python triple-quoted constructs of both quote  *)
(* styles.                                                                 *)
(***************************************************************************)
QuoteInit ==
  /\ family = "quo"
  /\ EditorInit
  /\ tie = NoTie
  /\ trial = NoTrial

SpecQuote == QuoteInit /\ [][Next]_vars

\* The three quotes that close line t, <<>> if t is shorter.
QuotesOf(t) == IF Len(t) >= 3 THEN SubSeq(t, Len(t) - 2, Len(t)) ELSE <<>>

\* Line t is three quotes of one style, after a prefix or at the start of
\* the line: it opens a docstring or a triple-quoted string.
OpensWith(t) ==
  IF /\ QuotesOf(t) \in {<<"\"", "\"", "\"">>, <<"'", "'", "'">>}
     /\ Len(t) <= 4
  THEN QuotesOf(t) ELSE <<>>

\* A call of highlightBlock on the second line, which begins in the
\* construct that the first line opened and holds nothing but three quotes:
\* the construct ends if and only if the quotes are of the opening style.
QuoteStep ==
  (/\ pending = 2
   /\ highlighter.cls = PythonHighlighter
   /\ OpensWith(doc[1]) # <<>>
   /\ previousBlockState(2) \in {STATE_DOCSTRING, STATE_TRIPLE_QUOTE_STRING}
   /\ Len(doc[2]) = 3
   /\ OpensWith(doc[2]) # <<>>)
  => userState'[2] = IF doc[2] = OpensWith(doc[1])
                     THEN STATE_DEFAULT ELSE previousBlockState(2)

\* C29: a Python docstring or triple-quoted string opened with one quote
\* style is ended only by the same style; a line that holds only the other
\* triple quote leaves the block in the construct's state.
DelimiterPairing == [][QuoteStep]_vars

(***************************************************************************)
(* Sessions on the lines of constructs whose two delimiters are the same   *)
(* text.                                                                   *)
(***************************************************************************)
SameInit ==
  /\ family = "tpl"
  /\ EditorInit
  /\ tie = NoTie
  /\ trial = NoTrial

SpecSame == SameInit /\ [][Next]_vars

\* The constructs whose start and end patterns match the same text: the
\* template literal of JavaScript, the docstring and the triple-quoted
\* string of Python.
SameDelimiter == {"template_literal", "docstring", "string3"}

\* The visit applies the start of such a construct.
SameApplied(v) ==
  StartApplied(v) /\ v.match_info.trigger_key \in SameDelimiter

\* Two spans share no offset.
Apart(a, b) == a.s + a.n <= b.s \/ b.s + b.n <= a.s

\* The property of C30 for a visit v of the text, spans being the spans it
\* wrote, end_match the end pattern's match after the start delimiter and
\* state the state of the call.
SameDelimiterAt(v, text, spans, end_match, state) ==
  /\ \A j, k \in DOMAIN spans :
        (j # k /\ spans[j].by = "delim" /\ spans[k].by = "delim")
        => Apart(spans[j], spans[k])
  /\ ~IsMatch(end_match)
       => /\ currentBlockState(v.after.c, NoState) = StartedTrigger(v).state
          /\ state = StartedTrigger(v).state
  /\ IsMatch(end_match)
       => /\ currentBlockState(v.after.c, NoState) = STATE_DEFAULT
          /\ v.after.c.applied
               = v.before.c.applied
                   \cup (v.match_info.match.s..(end_match.e - 1))
          /\ v.after.last_applied_end
               = Max(v.before.last_applied_end, end_match.e)

\* The property of C30 for the visits of `walk`.
SameDelimiterIn(walk, text, state) ==
  \A i \in DOMAIN walk :
     SameApplied(walk[i])
     => SameDelimiterAt(walk[i], text, SpansOf(walk[i]),
                        ReSearch(StartedTrigger(walk[i]).end, text,
                                 walk[i].match_info.match.e),
                        state)

\* C30: for a construct whose start and end patterns match the same text,
\* the end delimiter found on the start line never overlaps the start
\* delimiter: a lone opener leaves the line in the construct's state, and
\* an opener followed by a closer returns to Default with a consumed range
\* that ends at the closer's end.
SameDelimiters == SameDelimiterIn(LastWalk, last.text, last.state)

\* A visit of `walk` applies a lone opener.
LoneOpener(walk, text) ==
  \E i \in DOMAIN walk :
     /\ SameApplied(walk[i])
     /\ walk[i].match_info.match.s = 0
     /\ walk[i].match_info.match.e = Len(text)

\* A visit of `walk` applies an opener that a closer follows.
OpenerAndCloser(walk, text) ==
  \E i \in DOMAIN walk :
     /\ SameApplied(walk[i])
     /\ ~NoEndOnLine(walk[i], text)
     /\ walk[i].after.c.applied # {}

SameDelimitersWitness ==
  /\ last.blk # 0
  /\ last.after.cls = JavaScriptHighlighter
  /\ LoneOpener(LastWalk, last.text)

SameDelimitersCloserWitness ==
  /\ last.blk # 0
  /\ last.after.cls = PythonHighlighter
  /\ OpenerAndCloser(LastWalk, last.text)

====
